---- MODULE Spec2Model ----
(***************************************************************************)
(* Fuel tracker: the derived-fields calculator (calculateDerivedFields)    *)
(* and the entry-creation and entry-deletion handlers that use the         *)
(* fill-up entry store.                                                    *)
(*                                                                         *)
(* Numbers.  A JavaScript value that reaches the calculator is modelled as *)
(* a record [k, n, d]: k = "fin" is the exact rational n/d (d > 0, lowest  *)
(* terms), k = "inf" is +Infinity (n = 1) or -Infinity (n = -1), "nan" is  *)
(* NaN, "undef" is undefined (a missing field) and "null" is null.         *)
(* Floating-point rounding is not modelled: a finite result is the exact   *)
(* quotient the double approximates.                                       *)
(***************************************************************************)
EXTENDS Integers, FiniteSets, Sequences, Bags, TLC

\* entries: the rows of the fill-up entry table; nextId: its autoincrement
\* counter; request, response: the last request handled and its answer;
\* call: the last direct call of calculateDerivedFields and its outcome;
\* inflight: the create requests that have done their history lookup and not
\* yet their insert, and the vehicle update that has written and not yet read
\* the row back; stats: the last call of calculateFuelStats, the rows it
\* found and its result; dashboard: the last answer of GET /api/dashboard;
\* vehicles: the rows of the vehicle table; budgets: those of the monthly
\* budget table; sync: the object stores of the service worker's database and
\* the outcome of syncQueuedEntries; worker: the service worker's clock, caches
\* and cache timestamp, its fetch handlers under way, the cache writes not yet
\* done and the last answer it gave to a page
VARIABLES entries, nextId, request, response, call, inflight, stats, dashboard, vehicles, budgets, sync, worker

vars == <<entries, nextId, request, response, call, inflight, stats, dashboard, vehicles, budgets, sync, worker>>

----------------------------------------------------------------------------
(* Bounds of the model *)

\* odometer readings offered to the handlers are 1..MaxOdo (km)
MaxOdo == 3

\* the store holds at most MaxEntries entries (autoincrement ids 1..MaxEntries)
MaxEntries == 2

\* stores of at most MaxSeed entries are handed to the direct calls
MaxSeed == 2

----------------------------------------------------------------------------
(* JavaScript numbers *)

Abs(i) == IF i < 0 THEN -i ELSE i

Sgn(i) == IF i < 0 THEN -1 ELSE IF i = 0 THEN 0 ELSE 1

RECURSIVE GCD(_, _)
GCD(a, b) == IF b = 0 THEN a ELSE GCD(b, a % b)

\* the rational n/d (d # 0) in lowest terms with a positive denominator
Rat(n, d) ==
    LET g == GCD(Abs(n), Abs(d))
    IN  [k |-> "fin", n |-> (Sgn(d) * n) \div g, d |-> Abs(d) \div g]

Fin(i) == [k |-> "fin", n |-> i, d |-> 1]

NaN == [k |-> "nan", n |-> 0, d |-> 1]

Infinity == [k |-> "inf", n |-> 1, d |-> 1]

NegInfinity == [k |-> "inf", n |-> -1, d |-> 1]

Undefined == [k |-> "undef", n |-> 0, d |-> 1]

Null == [k |-> "null", n |-> 0, d |-> 1]

\* ToNumber: undefined -> NaN, null -> +0
ToNumber(v) ==
    IF v.k = "undef" THEN NaN ELSE IF v.k = "null" THEN Fin(0) ELSE v

InfOf(s) == IF s < 0 THEN NegInfinity ELSE Infinity

\* a - b
Sub(a0, b0) ==
    LET a == ToNumber(a0)
        b == ToNumber(b0)
    IN  IF a.k = "nan" \/ b.k = "nan" THEN NaN
        ELSE IF a.k = "inf" /\ b.k = "inf"
             THEN (IF a.n = b.n THEN NaN ELSE a)
        ELSE IF a.k = "inf" THEN a
        ELSE IF b.k = "inf" THEN InfOf(-b.n)
        ELSE Rat(a.n * b.d - b.n * a.d, a.d * b.d)

\* a * b
Mul(a0, b0) ==
    LET a == ToNumber(a0)
        b == ToNumber(b0)
    IN  IF a.k = "nan" \/ b.k = "nan" THEN NaN
        ELSE IF a.k = "inf" \/ b.k = "inf"
             THEN (IF Sgn(a.n) * Sgn(b.n) = 0 THEN NaN ELSE InfOf(Sgn(a.n) * Sgn(b.n)))
        ELSE LET g1 == GCD(Abs(a.n), b.d)
                 g2 == GCD(Abs(b.n), a.d)
             IN  Rat((a.n \div g1) * (b.n \div g2), (a.d \div g2) * (b.d \div g1))

\* a + b
Add(a0, b0) ==
    LET a == ToNumber(a0)
        b == ToNumber(b0)
    IN  IF a.k = "nan" \/ b.k = "nan" THEN NaN
        ELSE IF a.k = "inf" /\ b.k = "inf"
             THEN (IF a.n = b.n THEN a ELSE NaN)
        ELSE IF a.k = "inf" THEN a
        ELSE IF b.k = "inf" THEN b
        ELSE LET g == GCD(a.d, b.d)
             IN  Rat(a.n * (b.d \div g) + b.n * (a.d \div g), (a.d \div g) * b.d)

\* a / b (the divisor zero is +0)
Div(a0, b0) ==
    LET a == ToNumber(a0)
        b == ToNumber(b0)
    IN  IF a.k = "nan" \/ b.k = "nan" THEN NaN
        ELSE IF a.k = "inf" /\ b.k = "inf" THEN NaN
        ELSE IF a.k = "inf" THEN InfOf(a.n * (IF b.n < 0 THEN -1 ELSE 1))
        ELSE IF b.k = "inf" THEN Fin(0)
        ELSE IF b.n = 0 THEN (IF a.n = 0 THEN NaN ELSE InfOf(a.n))
        ELSE Mul(a, [k |-> "fin", n |-> Sgn(b.n) * b.d, d |-> Abs(b.n)])

\* a > 0
Gt0(a0) ==
    LET a == ToNumber(a0) IN a.k \in {"fin", "inf"} /\ a.n > 0

\* a <= 0
Le0(a0) ==
    LET a == ToNumber(a0) IN a.k \in {"fin", "inf"} /\ a.n <= 0

\* a < b
Lt(a0, b0) ==
    LET a == ToNumber(a0)
        b == ToNumber(b0)
    IN  /\ a.k # "nan" /\ b.k # "nan"
        /\ IF a.k = "inf" THEN a.n < 0 /\ ~(b.k = "inf" /\ b.n < 0)
           ELSE IF b.k = "inf" THEN b.n > 0
           ELSE a.n * b.d < b.n * a.d

\* Number.isFinite(v)
isFinite(v) == v.k = "fin"

\* v ?? w
Coalesce(v, w) == IF v.k \in {"undef", "null"} THEN w ELSE v

----------------------------------------------------------------------------
(* Unit conversion utility (conversions.ts) *)

\* 1 mile = 1.609344 km
KmPerMile == Rat(25146, 15625)

\* 1 US gallon = 3.785411784 l
LitersPerGallon == Rat(473176473, 125000000)

toKm(value, unit) == IF unit = "MILE" THEN Mul(value, KmPerMile) ELSE value

toLiters(value, unit) == IF unit = "GALLON" THEN Mul(value, LitersPerGallon) ELSE value

calculateLPer100Km(distanceKm, volumeL) == Mul(Div(volumeL, distanceKm), Fin(100))

mpgFromMetric(distanceKm, volumeL) ==
    Div(Div(distanceKm, KmPerMile), Div(volumeL, LitersPerGallon))

----------------------------------------------------------------------------
(* The fill-up entry store and the history lookup *)

\* the scope of a stored entry
ScopeOf(e) == <<e.userId, e.vehicleId, e.tankId>>

\* tankId ?? null
TankOrNull(tankId) == IF tankId = "undefined" THEN "null" ELSE tankId

\* where: { userId, vehicleId, tankId: tankId ?? null, odometerKm: { lt: odometerKm } }
WhereWrongTank(store, userId, vehicleId, tankId, odometerKm) ==
    {e \in store : /\ e.userId = userId
                   /\ e.vehicleId = vehicleId
                   /\ Lt(e.odometerKm, odometerKm)}

WhereNotAbove(store, userId, vehicleId, tankId, odometerKm) ==
    {e \in store : /\ e.userId = userId
                   /\ e.vehicleId = vehicleId
                   /\ e.tankId = TankOrNull(tankId)
                   /\ ~Lt(odometerKm, e.odometerKm)}

Where(store, userId, vehicleId, tankId, odometerKm) ==
    {e \in store : /\ e.userId = userId
                   /\ e.vehicleId = vehicleId
                   /\ e.tankId = TankOrNull(tankId)
                   /\ Lt(e.odometerKm, odometerKm)}

\* orderBy: { odometerKm: 'desc' }, first row: the rows that may come first
FirstByLatestDate(rows) ==
    {e \in rows : \A o \in rows : o.entryDate <= e.entryDate}

FirstByOdometerAsc(rows) ==
    {e \in rows : \A o \in rows : ~Lt(o.odometerKm, e.odometerKm)}

FirstByOdometerDesc(rows) ==
    {e \in rows : \A o \in rows : ~Lt(e.odometerKm, o.odometerKm)}

\* prisma.fillUpEntry.findFirst: found = FALSE is null; of the row found the
\* calculator reads odometerKm only, and the rows that may come first agree on it
NoPrevious == [found |-> FALSE, odometerKm |-> Null]

findFirst(store, userId, vehicleId, tankId, odometerKm) ==
    LET first == FirstByOdometerDesc(Where(store, userId, vehicleId, tankId, odometerKm))
    IN  IF first = {} THEN NoPrevious
        ELSE [found |-> TRUE, odometerKm |-> (CHOOSE e \in first : TRUE).odometerKm]

----------------------------------------------------------------------------
(* calculateDerivedFields *)

\* the three nullable fields an entry gets from its predecessor, and cost per km
NoDerived ==
    [distanceSinceLastKm |-> Null, economyLPer100Km |-> Null,
     economyMpg |-> Null, costPerKm |-> Null]

EconomyForAnyFill(previous, odometerKm, fuelVolumeL, totalCost, fillLevel) ==
    IF previous.found /\ Gt0(Sub(odometerKm, previous.odometerKm))
    THEN LET dist == Sub(odometerKm, previous.odometerKm)
         IN  [distanceSinceLastKm |-> dist,
              economyLPer100Km |-> calculateLPer100Km(dist, fuelVolumeL),
              economyMpg |-> mpgFromMetric(dist, fuelVolumeL),
              costPerKm |-> Div(totalCost, dist)]
    ELSE NoDerived

CostPerKmFullOnly(previous, odometerKm, fuelVolumeL, totalCost, fillLevel) ==
    IF previous.found /\ Gt0(Sub(odometerKm, previous.odometerKm))
    THEN LET dist == Sub(odometerKm, previous.odometerKm)
             full == fillLevel = "FULL" /\ Gt0(fuelVolumeL)
         IN  [distanceSinceLastKm |-> dist,
              economyLPer100Km |-> IF full THEN calculateLPer100Km(dist, fuelVolumeL) ELSE Null,
              economyMpg |-> IF full THEN mpgFromMetric(dist, fuelVolumeL) ELSE Null,
              costPerKm |-> IF full THEN Div(totalCost, dist) ELSE Null]
    ELSE NoDerived

EconomyPerKm(previous, odometerKm, fuelVolumeL, totalCost, fillLevel) ==
    IF previous.found /\ Gt0(Sub(odometerKm, previous.odometerKm))
    THEN LET dist == Sub(odometerKm, previous.odometerKm)
             full == fillLevel = "FULL" /\ Gt0(fuelVolumeL)
         IN  [distanceSinceLastKm |-> dist,
              economyLPer100Km |-> IF full THEN Div(fuelVolumeL, dist) ELSE Null,
              economyMpg |-> IF full THEN mpgFromMetric(dist, fuelVolumeL) ELSE Null,
              costPerKm |-> Div(totalCost, dist)]
    ELSE NoDerived

DistanceFromZero(previous, odometerKm, fuelVolumeL, totalCost, fillLevel) ==
    IF Gt0(Sub(odometerKm, previous.odometerKm))
    THEN LET dist == Sub(odometerKm, previous.odometerKm)
             full == fillLevel = "FULL" /\ Gt0(fuelVolumeL)
         IN  [distanceSinceLastKm |-> dist,
              economyLPer100Km |-> IF full THEN calculateLPer100Km(dist, fuelVolumeL) ELSE Null,
              economyMpg |-> IF full THEN mpgFromMetric(dist, fuelVolumeL) ELSE Null,
              costPerKm |-> Div(totalCost, dist)]
    ELSE NoDerived

EconomyWithoutMpg(previous, odometerKm, fuelVolumeL, totalCost, fillLevel) ==
    IF previous.found /\ Gt0(Sub(odometerKm, previous.odometerKm))
    THEN LET dist == Sub(odometerKm, previous.odometerKm)
             full == fillLevel = "FULL" /\ Gt0(fuelVolumeL)
         IN  [distanceSinceLastKm |-> dist,
              economyLPer100Km |-> IF full THEN calculateLPer100Km(dist, fuelVolumeL) ELSE Null,
              economyMpg |-> Null,
              costPerKm |-> Div(totalCost, dist)]
    ELSE NoDerived

\* let distanceSinceLastKm ... if (previous) { ... if (dist > 0) { ... } }
derivedFrom(previous, odometerKm, fuelVolumeL, totalCost, fillLevel) ==
    IF previous.found /\ Gt0(Sub(odometerKm, previous.odometerKm))
    THEN LET dist == Sub(odometerKm, previous.odometerKm)
             full == fillLevel = "FULL" /\ Gt0(fuelVolumeL)
         IN  [distanceSinceLastKm |-> dist,
              economyLPer100Km |-> IF full THEN calculateLPer100Km(dist, fuelVolumeL) ELSE Null,
              economyMpg |-> IF full THEN mpgFromMetric(dist, fuelVolumeL) ELSE Null,
              costPerKm |-> Div(totalCost, dist)]
    ELSE NoDerived

\* const pricePerLiter = fuelVolumeL > 0 ? totalCost / fuelVolumeL : null
pricePerLiterOf(fuelVolumeL, totalCost) ==
    IF Gt0(fuelVolumeL) THEN Div(totalCost, fuelVolumeL) ELSE Null

\* the error thrown by the validation block, "" when it throws nothing:
\* assertFiniteNumber on the three values, then the positivity test
MsgOdometer == "Invalid numeric value for odometerKm"

MsgFuel == "Invalid numeric value for fuelVolumeL"

MsgCost == "Invalid numeric value for totalCost"

MsgPositive == "Fuel volume and total cost must be greater than zero"

ValidationMessages == {MsgOdometer, MsgFuel, MsgCost, MsgPositive}

assertFiniteNumber(value, message) == IF isFinite(value) THEN "" ELSE message

validationError(odometerKm, fuelVolumeL, totalCost) ==
    IF assertFiniteNumber(odometerKm, MsgOdometer) # "" THEN MsgOdometer
    ELSE IF assertFiniteNumber(fuelVolumeL, MsgFuel) # "" THEN MsgFuel
    ELSE IF assertFiniteNumber(totalCost, MsgCost) # "" THEN MsgCost
    ELSE IF Le0(fuelVolumeL) \/ Le0(totalCost) THEN MsgPositive
    ELSE ""

NoResult ==
    [odometerKm |-> Undefined, fuelVolumeL |-> Undefined, pricePerLiter |-> Undefined,
     distanceSinceLastKm |-> Undefined, economyLPer100Km |-> Undefined,
     economyMpg |-> Undefined, costPerKm |-> Undefined]

\* The outcome of one call on the store: threw with its message, or a result;
\* lookups counts the reads of the store the call made.
calculateDerivedFields(store, userId, vehicleId, tankId, input) ==
    LET odometerKm == Coalesce(input.odometerKm, toKm(input.odometer, input.odometerUnit))
        fuelVolumeL == Coalesce(input.fuelVolumeL, toLiters(input.fuelVolume, input.fuelUnit))
        totalCost == input.totalCost
        error == validationError(odometerKm, fuelVolumeL, totalCost)
        previous == findFirst(store, userId, vehicleId, tankId, odometerKm)
        d == derivedFrom(previous, odometerKm, fuelVolumeL, totalCost, input.fillLevel)
    IN  IF error # ""
        THEN [threw |-> TRUE, message |-> error, lookups |-> 0, result |-> NoResult]
        ELSE [threw |-> FALSE, message |-> "", lookups |-> 1,
              result |-> [odometerKm |-> odometerKm,
                          fuelVolumeL |-> fuelVolumeL,
                          pricePerLiter |-> pricePerLiterOf(fuelVolumeL, totalCost),
                          distanceSinceLastKm |-> d.distanceSinceLastKm,
                          economyLPer100Km |-> d.economyLPer100Km,
                          economyMpg |-> d.economyMpg,
                          costPerKm |-> d.costPerKm]]

\* calculateDerivedFields of server/utils/calculations.ts, the one the create
\* route imports: the same calculation without the validation block, so it
\* throws nothing and always reads the store once
calculateDerivedFieldsUtils(store, userId, vehicleId, tankId, input) ==
    LET odometerKm == Coalesce(input.odometerKm, toKm(input.odometer, input.odometerUnit))
        fuelVolumeL == Coalesce(input.fuelVolumeL, toLiters(input.fuelVolume, input.fuelUnit))
        totalCost == input.totalCost
        previous == findFirst(store, userId, vehicleId, tankId, odometerKm)
        d == derivedFrom(previous, odometerKm, fuelVolumeL, totalCost, input.fillLevel)
    IN  [threw |-> FALSE, message |-> "", lookups |-> 1,
         result |-> [odometerKm |-> odometerKm,
                     fuelVolumeL |-> fuelVolumeL,
                     pricePerLiter |-> pricePerLiterOf(fuelVolumeL, totalCost),
                     distanceSinceLastKm |-> d.distanceSinceLastKm,
                     economyLPer100Km |-> d.economyLPer100Km,
                     economyMpg |-> d.economyMpg,
                     costPerKm |-> d.costPerKm]]

----------------------------------------------------------------------------
(* The tables the create and delete handlers read *)

Users == {1, 2}

\* vehicle 1 belongs to user 1, vehicle 2 to user 2
Vehicles == {[id |-> 1, userId |-> 1], [id |-> 2, userId |-> 2]}

\* tank profile "1" belongs to vehicle 1, tank profile "2" to vehicle 2
TankProfiles == {[id |-> "1", vehicleId |-> 1], [id |-> "2", vehicleId |-> 2]}

\* entry dates (and the clock's readings), as day numbers
Dates == {1, 2}

\* parseInt of a path parameter
parseInt(s) ==
    IF s = "1" THEN Fin(1) ELSE IF s = "2" THEN Fin(2) ELSE IF s = "3" THEN Fin(3) ELSE NaN

----------------------------------------------------------------------------
(* createEntrySchema *)

\* z.number().positive(): a number that is not NaN and is > 0
NumberNotNegative(v) == v.k \in {"fin", "inf"} /\ v.n >= 0

numberPositive(v) == v.k \in {"fin", "inf"} /\ v.n > 0

FuelTypes == {"GASOLINE", "DIESEL", "ELECTRIC", "REGULAR", "PREMIUM", "E85", "OTHER"}

FillLevels == {"FULL", "PARTIAL"}

\* the numeric fields the schema rejects
numericIssues(body) ==
    {f \in {"odometerKm", "fuelVolumeL", "totalCost"} : ~numberPositive(body[f])}

\* createEntrySchema.safeParse(body): unknown keys are stripped and
\* fillLevel defaults to FULL
safeParse(body) ==
    [success |-> /\ numericIssues(body) = {}
                 /\ body.fuelType \in FuelTypes
                 /\ body.fillLevel \in FillLevels \cup {"undefined"},
     data |-> [tankProfileId |-> body.tankProfileId,
               entryDate |-> body.entryDate,
               odometerKm |-> body.odometerKm,
               fuelVolumeL |-> body.fuelVolumeL,
               totalCost |-> body.totalCost,
               fuelType |-> body.fuelType,
               fillLevel |-> IF body.fillLevel = "undefined" THEN "FULL" ELSE body.fillLevel,
               odometer |-> Undefined, odometerUnit |-> "undefined",
               fuelVolume |-> Undefined, fuelUnit |-> "undefined"]]

----------------------------------------------------------------------------
(* POST /api/vehicles/[id]/entries *)

\* messages of the errors the store's client raises when a query fails: its
\* invocation errors open with "Invalid `prisma.<model>.<call>()` invocation"
MsgInvocation == "Invalid `prisma.fillUpEntry` invocation: Can't reach database server"

MsgConnection == "Connection lost"

CollaboratorMessages == {MsgInvocation, MsgConnection}

\* the invocation error of a create whose row the database cannot hold
MsgOutOfRange == "Invalid `prisma.fillUpEntry.create` invocation: the column can't hold the value"

\* errorMessage.toLowerCase().includes(word), for the messages above
includes(message, word) ==
    CASE word = "invalid" -> message \in {MsgOdometer, MsgFuel, MsgCost, MsgInvocation, MsgOutOfRange}
      [] word = "must be" -> message \in {MsgPositive}
      [] OTHER -> FALSE

\* errorMessage.toLowerCase().includes('invalid') || ....includes('must be')
isClientError(message) == includes(message, "invalid") \/ includes(message, "must be")

\* GASOLINE and ELECTRIC are stored as REGULAR and OTHER
dbFuelType(fuelType) ==
    IF fuelType = "GASOLINE" THEN "REGULAR"
    ELSE IF fuelType = "ELECTRIC" THEN "OTHER" ELSE fuelType

\* the row prisma.fillUpEntry.create inserts (entryDate 0 is an absent date)
newEntry(id, userId, vehicleId, input, derived, now) ==
    [id |-> id,
     userId |-> userId,
     vehicleId |-> vehicleId,
     tankId |-> TankOrNull(input.tankProfileId),
     entryDate |-> IF input.entryDate # 0 THEN input.entryDate ELSE now,
     odometerKm |-> derived.odometerKm,
     fuelVolumeL |-> derived.fuelVolumeL,
     totalCost |-> input.totalCost,
     pricePerLiter |-> derived.pricePerLiter,
     fuelType |-> dbFuelType(input.fuelType),
     fillLevel |-> input.fillLevel,
     distanceSinceLastKm |-> derived.distanceSinceLastKm,
     economyLPer100Km |-> derived.economyLPer100Km,
     economyMpg |-> derived.economyMpg,
     costPerKm |-> derived.costPerKm]

Body(tank, date, odo, fuel, cost, fuelType, fill) ==
    [tankProfileId |-> tank, entryDate |-> date, odometerKm |-> odo,
     fuelVolumeL |-> fuel, totalCost |-> cost, fuelType |-> fuelType, fillLevel |-> fill]

\* a request without a body
NoBody == Body("undefined", 0, Undefined, Undefined, Undefined, "undefined", "undefined")

\* what the store does while a request is handled: it answers ("none"), or
\* the history lookup or the insert rejects with an error of that message
Fault(at, message) == [at |-> at, message |-> message]

NoFault == Fault("none", "")

\* a request as the handlers see it: the session's user (0: none), the path
\* parameters and the JSON body, and what the store does meanwhile
Request(op, user, id, entryId, body) ==
    [op |-> op, user |-> user, id |-> id, entryId |-> entryId, body |-> body,
     fault |-> NoFault]

\* The database is MariaDB: a numeric column holds a finite number or NULL,
\* never NaN or an infinity.
NumericColumns ==
    {"odometerKm", "fuelVolumeL", "totalCost", "pricePerLiter", "distanceSinceLastKm",
     "economyLPer100Km", "economyMpg", "costPerKm"}

storable(row) == \A c \in NumericColumns : row[c].k \in {"fin", "null"}

\* prisma.fillUpEntry.create({ data }): one row more, the others as they were;
\* a row the database cannot hold is not stored (the call rejects)
CreateAndRelink(store, row) ==
    IF ~storable(row) THEN store
    ELSE {IF ScopeOf(e) = ScopeOf(row) /\ Lt(row.odometerKm, e.odometerKm)
          THEN [e EXCEPT !.distanceSinceLastKm = Sub(e.odometerKm, row.odometerKm),
                         !.costPerKm = Div(e.totalCost, Sub(e.odometerKm, row.odometerKm))]
          ELSE e : e \in store} \cup {row}

create(store, row) == IF storable(row) THEN store \cup {row} ELSE store

Response(op, status, error) == [op |-> op, status |-> status, error |-> error]

\* the catch block: a client error is answered 400 with its own message
caught(store, message) ==
    [store |-> store,
     response |-> IF isClientError(message)
                  THEN Response("POST", 400, message)
                  ELSE Response("POST", 500, "Internal server error")]

\* The handler up to prisma.fillUpEntry.create, for the request r (r.user is
\* the authenticated user, 0 when authentication fails) at time now, when the
\* store behaves as fault says: the answer when the handler ends there, and
\* status 0 with the row when it goes on to the insert.
beforeCreate(store, id, r, now, fault) ==
    LET vehicleId == parseInt(r.id)
        parsed == safeParse(r.body)
        input == parsed.data
        derived == calculateDerivedFieldsUtils(store, r.user, vehicleId.n,
                                               TankOrNull(input.tankProfileId), input)
    IN  IF r.user = 0
        THEN [store |-> store, response |-> Response("POST", 401, "Not authenticated")]
        ELSE IF vehicleId.k = "nan"
        THEN [store |-> store, response |-> Response("POST", 400, "Invalid vehicle id")]
        ELSE IF ~\E v \in Vehicles : v.id = vehicleId.n /\ v.userId = r.user
        THEN [store |-> store, response |-> Response("POST", 404, "Vehicle not found")]
        ELSE IF ~parsed.success
        THEN [store |-> store,
              response |-> Response("POST", 400, "Invalid input")]
        ELSE IF /\ input.tankProfileId \notin {"undefined", "0"}
                /\ ~\E t \in TankProfiles : t.id = input.tankProfileId /\ t.vehicleId = vehicleId.n
        THEN [store |-> store, response |-> Response("POST", 404, "Tank not found")]
        ELSE IF derived.threw
        THEN caught(store, derived.message)
        ELSE IF fault.at = "lookup"
        THEN caught(store, fault.message)
        ELSE [store |-> store, response |-> Response("POST", 0, ""),
              row |-> newEntry(id, r.user, vehicleId.n, input, derived.result, now)]

\* await prisma.fillUpEntry.create({ data }) and what follows: the 201 answer,
\* or the catch block when the insert fails or the database refuses the row
created(store, row, fault) ==
    IF fault.at = "insert" THEN caught(store, fault.message)
    ELSE IF ~storable(row) THEN caught(store, MsgOutOfRange)
    ELSE [store |-> create(store, row), response |-> Response("POST", 201, "")]

\* What the handler answers and the store it leaves.
handlePOSTUnder(store, id, r, now, fault) ==
    LET before == beforeCreate(store, id, r, now, fault)
    IN  IF before.response.status # 0
        THEN [store |-> before.store, response |-> before.response]
        ELSE created(store, before.row, fault)

handlePOST(store, id, r, now) == handlePOSTUnder(store, id, r, now, NoFault)

\* The handler awaits calculateDerivedFields, and with it the history lookup,
\* before it awaits prisma.fillUpEntry.create; other requests run between the
\* two, so a create request takes two steps.

\* the handlers that may be running at once
Handlers == {1, 2}

\* the row create is given: the derived fields of the lookup, the id of the insert
RowRelooked(store, row, id) ==
    LET previous == findFirst(store, row.userId, row.vehicleId, row.tankId, row.odometerKm)
        d == derivedFrom(previous, row.odometerKm, row.fuelVolumeL, row.totalCost, row.fillLevel)
    IN  [row EXCEPT !.id = id,
                    !.distanceSinceLastKm = d.distanceSinceLastKm,
                    !.economyLPer100Km = d.economyLPer100Km,
                    !.economyMpg = d.economyMpg,
                    !.costPerKm = d.costPerKm]

rowToInsert(store, row, id) == [row EXCEPT !.id = id]

\* the handler up to and including calculateDerivedFields: it answers at once
\* when it refuses the request or the lookup fails, and goes on to the insert
\* otherwise
lookupOf(h, r, now, fault) ==
    /\ \A f \in inflight : f.h # h
    /\ \A g \in Handlers : g < h => \E f \in inflight : f.h = g
    /\ LET out == beforeCreate(entries, 0, r, now, fault)
       IN  IF out.response.status = 0
           THEN /\ inflight' = inflight \cup {[h |-> h, r |-> r, row |-> out.row]}
                /\ UNCHANGED <<request, response>>
           ELSE /\ request' = [Request("POST", r.user, r.id, "", r.body) EXCEPT !.fault = fault]
                /\ response' = out.response
                /\ UNCHANGED inflight
    /\ UNCHANGED <<entries, nextId>>

\* a create request of a page, while the ids last
Lookup(h, r, now, fault) ==
    /\ nextId + Cardinality(inflight) <= MaxEntries
    /\ lookupOf(h, r, now, fault)
    /\ UNCHANGED <<call, stats, dashboard, vehicles, budgets, sync, worker>>

\* prisma.fillUpEntry.create and the 201 answer, or the catch block when the
\* insert fails
insertOf(h, fault) ==
    \E f \in inflight :
        /\ f.h = h
        /\ request' = [Request("POST", f.r.user, f.r.id, "", f.r.body) EXCEPT !.fault = fault]
        /\ LET out == created(entries, rowToInsert(entries, f.row, nextId), fault)
           IN  /\ response' = out.response
               /\ entries' = out.store
               /\ nextId' = IF out.response.status = 201 THEN nextId + 1 ELSE nextId
        /\ inflight' = inflight \ {f}

\* the insert of a page's create request
Insert(h, fault) ==
    /\ insertOf(h, fault)
    /\ UNCHANGED <<call, stats, dashboard, vehicles, budgets, sync, worker>>

----------------------------------------------------------------------------
(* DELETE /api/vehicles/[id]/entries/[entryId] *)

DELETE(r) ==
    LET vehicleId == parseInt(r.id)
        entryIdNum == parseInt(r.entryId)
        matched == {e \in entries : /\ e.id = entryIdNum.n
                                    /\ e.vehicleId = vehicleId.n
                                    /\ e.userId = r.user}
    IN  /\ request' = Request("DELETE", r.user, r.id, r.entryId, NoBody)
        /\ IF r.user = 0
           THEN /\ response' = Response("DELETE", 401, "Not authenticated")
                /\ UNCHANGED entries
           ELSE IF vehicleId.k = "nan" \/ entryIdNum.k = "nan"
           THEN /\ response' = Response("DELETE", 400, "Invalid id")
                /\ UNCHANGED entries
           ELSE IF ~\E v \in Vehicles : v.id = vehicleId.n /\ v.userId = r.user
           THEN /\ response' = Response("DELETE", 404, "Vehicle not found")
                /\ UNCHANGED entries
           ELSE IF matched = {}
           THEN /\ response' = Response("DELETE", 404, "Entry not found")
                /\ UNCHANGED entries
           ELSE /\ response' = Response("DELETE", 200, "Entry deleted successfully")
                /\ entries' = entries \ matched
        /\ UNCHANGED <<nextId, call, inflight, stats, dashboard, vehicles, budgets, sync, worker>>

----------------------------------------------------------------------------
(* Requests *)

\* fuel volumes (l) and total costs offered to the handlers
Volumes == {2}

Costs == {3}

\* well-formed create requests of a vehicle's owner: user 1 for vehicle 1, with
\* or without its tank profile, full or partial; user 2 for vehicle 2
Requests ==
    {[user |-> 1, id |-> "1",
      body |-> Body(tank, 0, Fin(odo), Fin(fuel), Fin(cost), "GASOLINE", fill)] :
        tank \in {"undefined", "1"},
        odo \in 1..MaxOdo, fuel \in Volumes, cost \in Costs, fill \in FillLevels}
    \cup
    {[user |-> 2, id |-> "2",
      body |-> Body("undefined", 0, Fin(odo), Fin(fuel), Fin(cost), "DIESEL", "FULL")] :
        odo \in 1..MaxOdo, fuel \in Volumes, cost \in Costs}

DeleteRequests ==
    {[user |-> u, id |-> id, entryId |-> e] :
        u \in Users, id \in {"1", "2"}, e \in {"1", "2"}}

\* calculateFuelStats not called yet, the dashboard not asked yet
NoStats == [made |-> FALSE]

NoDashboard == [made |-> FALSE, started |-> FALSE]

\* the object stores of the database 'FuelTrackerCache' as initDB creates
\* it, and no sync event handled yet
NoSync == [stores |-> {"cacheTimestamps"}, outcome |-> ""]

\* the dashboard requests the service worker may handle at a time
FetchHandlers == {1, 2}

\* the other paths under /api/ a page asks for
ApiPaths == {"/api/vehicles"}

\* no response: what cache.match gives for a request that is not cached
NoResponse == [status |-> 0, stored |-> 0]

\* a fetch handler that is not handling a request
Idle == [pc |-> "idle", cached |-> NoResponse]

\* a fetch handler of the other paths that is not handling a request
IdleApi == [pc |-> "idle", path |-> ""]

NoAnswer ==
    [path |-> "", kind |-> "", status |-> 0, stored |-> 0, at |-> 0, waited |-> FALSE,
     net |-> "", cacheHad |-> FALSE]

\* the service worker after its installation: empty caches, no timestamp
NoWorker ==
    [now |-> 1, dash |-> NoResponse, stamp |-> 0,
     api |-> [p \in ApiPaths |-> NoResponse],
     handlers |-> [h \in FetchHandlers |-> Idle],
     apis |-> [h \in FetchHandlers |-> IdleApi],
     writes |-> EmptyBag, answer |-> NoAnswer]

\* the vehicle table: no vehicle has an expectedMpg
VehicleRows == {[id |-> v.id, userId |-> v.userId, expectedMpg |-> Null] : v \in Vehicles}

NoCall ==
    [made |-> FALSE, userId |-> 0, vehicleId |-> 0, tankId |-> "null",
     input |-> safeParse(NoBody).data,
     outcome |-> [threw |-> FALSE, message |-> "", lookups |-> 0, result |-> NoResult],
     utils |-> [threw |-> FALSE, message |-> "", lookups |-> 0, result |-> NoResult]]

Init ==
    /\ entries = {}
    /\ nextId = 1
    /\ request = Request("", 0, "", "", NoBody)
    /\ response = Response("", 0, "")
    /\ call = NoCall
    /\ inflight = {}
    /\ stats = NoStats
    /\ dashboard = NoDashboard
    /\ vehicles = VehicleRows
    /\ budgets = {}
    /\ sync = NoSync
    /\ worker = NoWorker

\* the clock's reading when a request omits entryDate
Clock == {1}

Create == \E h \in Handlers, r \in Requests, now \in Clock : Lookup(h, r, now, NoFault)

Store == \E h \in Handlers : Insert(h, NoFault)

Delete == \E r \in DeleteRequests : DELETE(r)

Next == Create \/ Store \/ Delete

Spec == Init /\ [][Next]_vars

----------------------------------------------------------------------------
(* Direct calls of calculateDerivedFields on a store the handlers can build *)

\* create requests of user 1 for vehicle 1, dated, with and without tank "1"
SeedRequests ==
    {[user |-> 1, id |-> "1",
      body |-> Body(tank, date, Fin(odo), Fin(fuel), Fin(cost), "GASOLINE", "FULL")] :
        tank \in {"undefined", "1"}, date \in Dates,
        odo \in 1..MaxOdo, fuel \in Volumes, cost \in Costs}

\* the stores after at most n accepted seed requests
RECURSIVE StoresAfter(_)
StoresAfter(n) ==
    IF n = 0 THEN {{}}
    ELSE LET prev == StoresAfter(n - 1)
         IN  prev \cup {handlePOST(s, Cardinality(s) + 1, r, 1).store :
                           s \in prev, r \in SeedRequests}

Input(odometerKm, odometer, odometerUnit, fuelVolumeL, fuelVolume, fuelUnit, totalCost, fillLevel) ==
    [tankProfileId |-> "undefined", entryDate |-> 0, fuelType |-> "GASOLINE",
     odometerKm |-> odometerKm, odometer |-> odometer, odometerUnit |-> odometerUnit,
     fuelVolumeL |-> fuelVolumeL, fuelVolume |-> fuelVolume, fuelUnit |-> fuelUnit,
     totalCost |-> totalCost, fillLevel |-> fillLevel]

Metric(odometerKm, fuelVolumeL, totalCost, fillLevel) ==
    Input(odometerKm, Undefined, "undefined", fuelVolumeL, Undefined, "undefined",
          totalCost, fillLevel)

\* values that are no positive finite number
NonFinite == {Undefined, NaN, Infinity, NegInfinity}

NonPositive == {Fin(0), Fin(-1)}

\* inputs in metric form with finite positive numbers
MetricInputs ==
    {Metric(Fin(odo), Fin(fuel), Fin(cost), fill) :
        odo \in 1..MaxOdo, fuel \in Volumes, cost \in Costs, fill \in FillLevels}

\* inputs in the legacy unit-tagged form (a reading in miles comes with a partial
\* fill: the exact MPG over a distance of 1.609344 k - j km is beyond 32-bit integers)
LegacyInputs ==
    {Input(Undefined, odometer, "KM", Fin(2), Undefined, "undefined", Fin(3), fill) :
        odometer \in {Undefined, Fin(2)}, fill \in FillLevels}
    \cup
    {Input(Undefined, odometer, "MILE", Fin(2), Undefined, "undefined", Fin(3), "PARTIAL") :
        odometer \in {Undefined, Fin(2)}}
    \cup
    {Input(Fin(MaxOdo), Undefined, "undefined", Undefined, fuelVolume, unit, Fin(3), fill) :
        fuelVolume \in {Undefined, Fin(1)}, unit \in {"LITER", "GALLON"},
        fill \in FillLevels}

\* inputs with a missing, non-finite or non-positive number
InvalidInputs ==
    {Metric(odo, Fin(2), Fin(3), "FULL") : odo \in NonFinite}
    \cup {Metric(Fin(MaxOdo), fuel, cost, "FULL") :
             fuel \in NonFinite \cup NonPositive \cup {Fin(2)},
             cost \in NonFinite \cup NonPositive \cup {Fin(3)}}
    \cup {Metric(Fin(0), Fin(2), Fin(3), "FULL"), Metric(Fin(-1), Fin(2), Fin(3), "FULL")}

\* the scopes asked about: the seeds' scopes, user 2, vehicle 2
CallScopes ==
    {<<1, 1, "null">>, <<1, 1, "undefined">>, <<1, 1, "1">>, <<1, 1, "2">>,
     <<2, 1, "null">>, <<1, 2, "null">>}

Calls ==
    (CallScopes \X MetricInputs) \cup ({<<1, 1, "null">>} \X (LegacyInputs \cup InvalidInputs))

\* one call per store, of either copy of calculateDerivedFields: outcome is
\* that of server/auth/index.ts, utils that of server/utils/calculations.ts
Call(scope, input) ==
    /\ ~call.made
    /\ call' = [made |-> TRUE, userId |-> scope[1], vehicleId |-> scope[2],
                tankId |-> scope[3], input |-> input,
                outcome |-> calculateDerivedFields(entries, scope[1], scope[2],
                                                   scope[3], input),
                utils |-> calculateDerivedFieldsUtils(entries, scope[1], scope[2],
                                                      scope[3], input)]
    /\ UNCHANGED <<entries, nextId, request, response, inflight, stats, dashboard, vehicles, budgets, sync, worker>>

InitCalc ==
    /\ entries \in StoresAfter(MaxSeed)
    /\ nextId = Cardinality(entries) + 1
    /\ request = Request("", 0, "", "", NoBody)
    /\ response = Response("", 0, "")
    /\ call = NoCall
    /\ inflight = {}
    /\ stats = NoStats
    /\ dashboard = NoDashboard
    /\ vehicles = VehicleRows
    /\ budgets = {}
    /\ sync = NoSync
    /\ worker = NoWorker

NextCalc == \E c \in Calls : Call(c[1], c[2])

SpecCalc == InitCalc /\ [][NextCalc]_vars

----------------------------------------------------------------------------
(* One more create request, and deletes, on a store the handlers have built *)

\* a create request of a page on a store of MaxSeed entries
CreateInto(h, r, now) ==
    /\ nextId + Cardinality(inflight) <= MaxSeed + 1
    /\ lookupOf(h, r, now, NoFault)
    /\ UNCHANGED <<call, stats, dashboard, vehicles, budgets, sync, worker>>

CreateBetween == \E h \in Handlers, r \in Requests, now \in Clock : CreateInto(h, r, now)

NextBetween == CreateBetween \/ Store \/ Delete

\* the stores the handlers build from MaxSeed seed requests dated 1
InitBetween ==
    /\ InitCalc
    /\ Cardinality(entries) = MaxSeed
    /\ \A e \in entries : e.entryDate = 1

SpecBetween == InitBetween /\ [][NextBetween]_vars

----------------------------------------------------------------------------
(* Create requests of any shape, against a store of well-formed entries *)

\* well-formed requests of user 1 for vehicle 1
PlainRequests ==
    {[user |-> 1, id |-> "1",
      body |-> Body(tank, 0, Fin(odo), Fin(2), Fin(3), "GASOLINE", fill)] :
        tank \in {"undefined", "1"}, odo \in 1..MaxOdo, fill \in FillLevels}

\* requests of user 1 for vehicle 1 whose numbers the schema or the calculator refuses
BadNumberRequests ==
    {[user |-> 1, id |-> "1",
      body |-> Body("undefined", 0, odo, Fin(2), Fin(3), "GASOLINE", "FULL")] :
        odo \in NonFinite \cup NonPositive}
    \cup
    {[user |-> 1, id |-> "1",
      body |-> Body("undefined", 0, Fin(MaxOdo), fuel, Fin(3), "GASOLINE", "FULL")] :
        fuel \in NonFinite \cup NonPositive}
    \cup
    {[user |-> 1, id |-> "1",
      body |-> Body("undefined", 0, Fin(MaxOdo), Fin(2), cost, "GASOLINE", "FULL")] :
        cost \in NonFinite \cup NonPositive}
    \cup
    {[user |-> 1, id |-> "1",
      body |-> Body("undefined", 0, Infinity, Infinity, cost, "GASOLINE", "FULL")] :
        cost \in {Infinity, Fin(0)}}

\* requests refused for another reason: no session, a vehicle id that is no
\* number, a vehicle of another user, an unknown fuel type or fill level, a tank
\* profile of another vehicle
OtherBadRequests ==
    {[user |-> u, id |-> id,
      body |-> Body("undefined", 0, Fin(1), fuel, Fin(3), "GASOLINE", "FULL")] :
        u \in {0, 1, 2}, id \in {"1", "2", "x"}, fuel \in {Fin(2), Fin(0)}}
    \cup
    {[user |-> 1, id |-> "1",
      body |-> Body(tank, 0, Fin(1), Fin(2), Fin(3), fuelType, fill)] :
        tank \in {"undefined", "2"},
        fuelType \in {"GASOLINE", "WATER"}, fill \in {"FULL", "HALF", "undefined"}}

AnyRequests == PlainRequests \cup BadNumberRequests \cup OtherBadRequests

CreateAny == \E h \in Handlers, r \in AnyRequests, now \in Clock : Lookup(h, r, now, NoFault)

NextInput == CreateAny \/ Store

SpecInput == Init /\ [][NextInput]_vars

----------------------------------------------------------------------------
(* Create requests with numbers of every kind, and delete requests *)

\* the numbers of a create request: finite and positive, or with one that is
\* infinite, NaN, missing, zero or negative, or with all three infinite
RequestNumbers ==
    {<<Fin(odo), Fin(2), Fin(3)>> : odo \in 1..MaxOdo}
    \cup {<<odo, Fin(2), Fin(3)>> : odo \in {Infinity, NaN, Fin(0)}}
    \cup {<<Fin(MaxOdo), fuel, Fin(3)>> : fuel \in {Infinity, Undefined, Fin(0)}}
    \cup {<<Fin(MaxOdo), Fin(2), cost>> : cost \in {Infinity, Fin(-1)}}
    \cup {<<Infinity, Infinity, Infinity>>}

\* requests of user 1 for vehicle 1 with these numbers, full or partial
NumberRequests ==
    {[user |-> 1, id |-> "1",
      body |-> Body("undefined", 0, n[1], n[2], n[3], "GASOLINE", fill)] :
        n \in RequestNumbers, fill \in FillLevels}

\* delete requests for vehicle 1, by its owner and by another user
OwnDeleteRequests ==
    {[user |-> u, id |-> "1", entryId |-> e] : u \in Users, e \in {"1", "2"}}

CreateNumbers ==
    \E h \in Handlers, r \in NumberRequests, now \in Clock : Lookup(h, r, now, NoFault)

DeleteOwn == \E r \in OwnDeleteRequests : DELETE(r)

NextStored == CreateNumbers \/ Store \/ DeleteOwn

SpecStored == Init /\ [][NextStored]_vars

----------------------------------------------------------------------------
(* Create requests against a store whose queries may fail *)

LookupFaults == {NoFault} \cup {Fault("lookup", m) : m \in CollaboratorMessages}

InsertFaults == {NoFault} \cup {Fault("insert", m) : m \in CollaboratorMessages}

\* requests of user 1 for vehicle 1 with no tank profile, tank profile 0 or the
\* profile of either vehicle, and requests with no session or of user 2
FaultRequests ==
    {[user |-> 1, id |-> "1",
      body |-> Body(tank, 0, odo, fuel, Fin(3), "GASOLINE", "FULL")] :
        tank \in {"undefined", "0", "1", "2"},
        odo \in {Fin(n) : n \in 1..MaxOdo} \cup {Infinity}, fuel \in {Fin(2), Fin(0)}}
    \cup
    {[user |-> u, id |-> id,
      body |-> Body(tank, 0, Fin(1), Fin(2), Fin(3), "GASOLINE", "FULL")] :
        u \in {0, 2}, id \in {"1", "x"}, tank \in {"undefined", "2"}}

CreateUnder ==
    \E h \in Handlers, r \in FaultRequests, now \in Clock, fault \in LookupFaults :
        Lookup(h, r, now, fault)

StoreUnder == \E h \in Handlers, fault \in InsertFaults : Insert(h, fault)

NextFault == CreateUnder \/ StoreUnder

SpecFault == Init /\ [][NextFault]_vars

----------------------------------------------------------------------------
(* Concurrent create requests of one scope *)

\* create requests of user 1 for vehicle 1 without tank profile
RaceRequests ==
    {[user |-> 1, id |-> "1",
      body |-> Body("undefined", 0, Fin(odo), Fin(2), Fin(3), "GASOLINE", fill)] :
        odo \in 1..MaxOdo, fill \in FillLevels}

LookupStep ==
    \E h \in Handlers, r \in RaceRequests, now \in Clock : Lookup(h, r, now, NoFault)

InsertStep == \E h \in Handlers : Insert(h, NoFault)

NextRace == LookupStep \/ InsertStep

SpecRace == Init /\ [][NextRace]_vars

----------------------------------------------------------------------------
(* calculateFuelStats *)

\* where: { vehicleId, ...(tankId && { tankId }), ...(fuelType && { fuelType }) }
statsWhere(store, vehicleId, tankId, fuelType) ==
    {e \in store : /\ e.vehicleId = vehicleId
                   /\ (tankId \notin {"undefined", "0"} => e.tankId = tankId)
                   /\ (fuelType \notin {"undefined", ""} => e.fuelType = fuelType)}

\* the sequences that list every row once
Orderings(rows) ==
    {q \in [1..Cardinality(rows) -> rows] : \A i, j \in DOMAIN q : i # j => q[i] # q[j]}

\* orderBy: { entryDate: 'asc' }: rows of one date come in any order
OrderedByDateAsc(rows) ==
    {q \in Orderings(rows) : \A i, j \in DOMAIN q : i < j => q[i].entryDate <= q[j].entryDate}

\* prisma.fillUpEntry.findMany({ where, orderBy }): the results it may give
findMany(store, vehicleId, tankId, fuelType) ==
    OrderedByDateAsc(statsWhere(store, vehicleId, tankId, fuelType))

\* the test of the safeEntries filter
isValidEntry(e) ==
    /\ isFinite(ToNumber(e.odometerKm))
    /\ isFinite(ToNumber(e.fuelVolumeL))
    /\ isFinite(ToNumber(e.totalCost))

safeEntriesOf(found) == SelectSeq(found, isValidEntry)

\* seq.reduce((sum, e) => sum + Number(e[field]), 0)
RECURSIVE reduceSum(_, _)
reduceSum(seq, field) ==
    IF Len(seq) = 0 THEN Fin(0)
    ELSE Add(reduceSum(SubSeq(seq, 1, Len(seq) - 1), field), ToNumber(seq[Len(seq)][field]))

IsFullFill(e) == e.fillLevel = "FULL"

FuelOfFullFills(safeEntries) == reduceSum(SelectSeq(safeEntries, IsFullFill), "fuelVolumeL")

totalFuelLOf(safeEntries) == reduceSum(safeEntries, "fuelVolumeL")

totalCostOf(safeEntries) == reduceSum(safeEntries, "totalCost")

\* last odometer minus first odometer of the list as found
RECURSIVE MaxOdometer(_)
MaxOdometer(seq) ==
    IF Len(seq) = 1 THEN seq[1].odometerKm
    ELSE LET m == MaxOdometer(SubSeq(seq, 1, Len(seq) - 1))
         IN  IF Lt(m, seq[Len(seq)].odometerKm) THEN seq[Len(seq)].odometerKm ELSE m

RECURSIVE MinOdometer(_)
MinOdometer(seq) ==
    IF Len(seq) = 1 THEN seq[1].odometerKm
    ELSE LET m == MinOdometer(SubSeq(seq, 1, Len(seq) - 1))
         IN  IF Lt(seq[Len(seq)].odometerKm, m) THEN seq[Len(seq)].odometerKm ELSE m

MaxMinusMinOdometer(safeEntries) ==
    IF Len(safeEntries) > 1
    THEN Sub(MaxOdometer(safeEntries), MinOdometer(safeEntries))
    ELSE Fin(0)

totalDistanceKmOf(safeEntries) ==
    IF Len(safeEntries) > 1
    THEN Sub(ToNumber(safeEntries[Len(safeEntries)].odometerKm), ToNumber(safeEntries[1].odometerKm))
    ELSE Fin(0)

\* safeEntries.filter(e => e.fillLevel === 'FULL' && e[field] !== null)
fullFills(safeEntries, field) ==
    SelectSeq(safeEntries, LAMBDA e : e.fillLevel = "FULL" /\ e[field] # Null)

\* samples.length > 0 ? samples.reduce(...) / samples.length : null
averageOf(samples, field) ==
    IF Len(samples) > 0 THEN Div(reduceSum(samples, field), Fin(Len(samples))) ELSE Null

\* totalFuelL > 0 ? totalCost / totalFuelL : null
MeanEntryPrice(safeEntries, totalFuelL, totalCost) ==
    IF Gt0(totalFuelL)
    THEN Div(reduceSum(safeEntries, "pricePerLiter"), Fin(Len(safeEntries)))
    ELSE Null

avgPricePerLiterOf(safeEntries, totalFuelL, totalCost) ==
    IF Gt0(totalFuelL) THEN Div(totalCost, totalFuelL) ELSE Null

\* the record returned when safeEntries is empty
EmptyStats ==
    [totalFuelL |-> Fin(0), totalCost |-> Fin(0), totalDistanceKm |-> Fin(0),
     avgEconomyLPer100Km |-> Null, avgPricePerLiter |-> Null, entryCount |-> 0]

\* calculateFuelStats from the rows findMany has given
calculateFuelStats(found) ==
    LET safeEntries == safeEntriesOf(found)
        totalFuelL == totalFuelLOf(safeEntries)
        totalCost == totalCostOf(safeEntries)
    IN  IF Len(safeEntries) = 0 THEN EmptyStats
        ELSE [totalFuelL |-> totalFuelL,
              totalCost |-> totalCost,
              totalDistanceKm |-> totalDistanceKmOf(safeEntries),
              avgEconomyLPer100Km |->
                  averageOf(fullFills(safeEntries, "economyLPer100Km"), "economyLPer100Km"),
              avgEconomyMpg |-> averageOf(fullFills(safeEntries, "economyMpg"), "economyMpg"),
              avgPricePerLiter |-> avgPricePerLiterOf(safeEntries, totalFuelL, totalCost),
              entryCount |-> Len(safeEntries)]

\* calculateFuelStats of server/utils/calculations.ts, the one the pages
\* import: the same aggregation over every row found, without the filter
calculateFuelStatsUtils(found) ==
    LET totalFuelL == totalFuelLOf(found)
        totalCost == totalCostOf(found)
    IN  IF Len(found) = 0 THEN EmptyStats
        ELSE [totalFuelL |-> totalFuelL,
              totalCost |-> totalCost,
              totalDistanceKm |-> totalDistanceKmOf(found),
              avgEconomyLPer100Km |->
                  averageOf(fullFills(found, "economyLPer100Km"), "economyLPer100Km"),
              avgEconomyMpg |-> averageOf(fullFills(found, "economyMpg"), "economyMpg"),
              avgPricePerLiter |-> avgPricePerLiterOf(found, totalFuelL, totalCost),
              entryCount |-> Len(found)]

\* create requests of user 1 for vehicle 1: full fills of 2 l at every
\* odometer on both dates, partial fills of 1 l on both dates and full fills
\* with tank profile "1" at the odometers 1, 2 and MaxOdo
StatSeedRequests ==
    {[user |-> 1, id |-> "1",
      body |-> Body("undefined", date, Fin(odo), Fin(2), Fin(3), "GASOLINE", "FULL")] :
        date \in Dates, odo \in 1..MaxOdo}
    \cup
    {[user |-> 1, id |-> "1",
      body |-> Body("undefined", date, Fin(odo), Fin(1), Fin(3), "GASOLINE", "PARTIAL")] :
        date \in Dates, odo \in {1, 2, MaxOdo}}
    \cup
    {[user |-> 1, id |-> "1",
      body |-> Body("1", 1, Fin(odo), Fin(2), Fin(3), "DIESEL", "FULL")] : odo \in {1, 2, MaxOdo}}

RECURSIVE StatStoresAfter(_)
StatStoresAfter(n) ==
    IF n = 0 THEN {{}}
    ELSE LET prev == StatStoresAfter(n - 1)
         IN  prev \cup {handlePOST(t, Cardinality(t) + 1, r, 1).store :
                           t \in prev, r \in StatSeedRequests}

\* The list of entries the aggregation is given may contain an entry whose
\* number is not finite (the case the safeEntries filter provides for); no
\* create request stores one.
Corruptions == {<<"odometerKm", NaN>>, <<"fuelVolumeL", Infinity>>, <<"totalCost", NaN>>}

\* the table t as the create handler has built it, and t with one row that
\* reads as a value that is no finite number
StatTables(t) ==
    {t} \cup {(t \ {e}) \cup {[e EXCEPT ![c[1]] = c[2]]} : e \in t, c \in Corruptions}

StatCalls == {<<1, "undefined", "undefined">>, <<1, "1", "undefined">>,
              <<1, "undefined", "REGULAR">>, <<2, "undefined", "undefined">>}

\* one call per table, of either copy of calculateFuelStats on the rows found:
\* result is that of server/auth/index.ts, utils that of server/utils/calculations.ts
Stats(vehicleId, tankId, fuelType) ==
    /\ ~stats.made
    /\ \E found \in findMany(entries, vehicleId, tankId, fuelType) :
          stats' = [made |-> TRUE, vehicleId |-> vehicleId, tankId |-> tankId,
                    fuelType |-> fuelType, found |-> found,
                    result |-> calculateFuelStats(found),
                    utils |-> calculateFuelStatsUtils(found)]
    /\ UNCHANGED <<entries, nextId, request, response, call, inflight, dashboard, vehicles, budgets, sync, worker>>

InitStats ==
    /\ \E t \in StatStoresAfter(MaxSeed) : entries \in StatTables(t)
    /\ nextId = Cardinality(entries) + 1
    /\ request = Request("", 0, "", "", NoBody)
    /\ response = Response("", 0, "")
    /\ call = NoCall
    /\ inflight = {}
    /\ stats = NoStats
    /\ dashboard = NoDashboard
    /\ vehicles = VehicleRows
    /\ budgets = {}
    /\ sync = NoSync
    /\ worker = NoWorker

NextStats == \E c \in StatCalls : Stats(c[1], c[2], c[3])

SpecStats == InitStats /\ [][NextStats]_vars

----------------------------------------------------------------------------
(* Statistics of a vehicle whose entries were created one after another *)

\* the most entries created before the statistics are asked for
MaxTrip == 3

\* the n-th create request of user 1 for vehicle 1: dated n or 1, and with
\* tank profile "1" dated n
TripRequests(n) ==
    {[user |-> 1, id |-> "1",
      body |-> Body("undefined", date, Fin(odo), Fin(2), Fin(3), "GASOLINE", "FULL")] :
        date \in {1, n}, odo \in 1..MaxOdo}
    \cup
    {[user |-> 1, id |-> "1",
      body |-> Body("1", n, Fin(odo), Fin(2), Fin(3), "GASOLINE", "FULL")] : odo \in 1..MaxOdo}

\* the tables the create handler builds from at most n of them, one request
\* after the other; the ids count the creations
RECURSIVE TripStoresAfter(_)
TripStoresAfter(n) ==
    IF n = 0 THEN {{}}
    ELSE LET prev == TripStoresAfter(n - 1)
         IN  prev \cup {handlePOST(t, Cardinality(t) + 1, r, 1).store :
                           t \in prev, r \in TripRequests(n)}

InitTrip ==
    /\ entries \in TripStoresAfter(MaxTrip)
    /\ nextId = Cardinality(entries) + 1
    /\ request = Request("", 0, "", "", NoBody)
    /\ response = Response("", 0, "")
    /\ call = NoCall
    /\ inflight = {}
    /\ stats = NoStats
    /\ dashboard = NoDashboard
    /\ vehicles = VehicleRows
    /\ budgets = {}
    /\ sync = NoSync
    /\ worker = NoWorker

NextTrip == Stats(1, "undefined", "undefined")

SpecTrip == InitTrip /\ [][NextTrip]_vars

----------------------------------------------------------------------------
(* GET /api/dashboard *)

\* a column value (a Decimal or null) taken as a condition: false only for null
IsSet(v) == v.k \notin {"null", "undef"}

\* a number taken as a condition: false for null, undefined, NaN and 0
Truthy(v) == IsSet(v) /\ v.k # "nan" /\ ~(v.k = "fin" /\ v.n = 0)

\* v || null
OrNull(v) == IF Truthy(v) THEN v ELSE Null

\* Number(v || 0) of a column value
NumberOr0(v) == IF IsSet(v) THEN ToNumber(v) ELSE Fin(0)

\* rows.reduce((sum, e) => sum + Number(e[field] || 0), 0)
RECURSIVE sumNumbers(_, _)
sumNumbers(rows, field) ==
    IF rows = << >> THEN Fin(0)
    ELSE Add(sumNumbers(SubSeq(rows, 1, Len(rows) - 1), field), NumberOr0(rows[Len(rows)][field]))

\* samples.length > 0 ? samples.reduce(...) / samples.length : null
meanOrNull(samples, field) ==
    IF Len(samples) > 0 THEN Div(sumNumbers(samples, field), Fin(Len(samples))) ELSE Null

\* a < b for finite a and b: by their whole parts, then by the remainders
Less(a, b) ==
    LET fa == a.n \div a.d
        fb == b.n \div b.d
    IN  fa < fb \/ (fa = fb /\ (a.n % a.d) * b.d < (b.n % b.d) * a.d)

\* Math.min(a, b)
MathMin(a0, b0) ==
    LET a == ToNumber(a0)
        b == ToNumber(b0)
    IN  IF a.k = "nan" \/ b.k = "nan" THEN NaN
        ELSE IF a.k = "inf" THEN (IF a.n < 0 THEN a ELSE b)
        ELSE IF b.k = "inf" THEN (IF b.n < 0 THEN b ELSE a)
        ELSE IF Less(b, a) THEN b ELSE a

\* Math.max(a, b)
MathMax(a0, b0) ==
    LET a == ToNumber(a0)
        b == ToNumber(b0)
    IN  IF a.k = "nan" \/ b.k = "nan" THEN NaN
        ELSE IF a.k = "inf" THEN (IF a.n > 0 THEN a ELSE b)
        ELSE IF b.k = "inf" THEN (IF b.n > 0 THEN b ELSE a)
        ELSE IF Less(a, b) THEN b ELSE a

\* Dates are days counted from 1 January 2025 (day 1); 2025 and 2026 have
\* 365 days each.
getFullYear(date) == 2025 + ((date - 1) \div 365)

\* the days of the year before each month begins
DaysBeforeMonth == <<0, 31, 59, 90, 120, 151, 181, 212, 243, 273, 304, 334>>

\* the month of a date, January being 0
getMonth(date) ==
    Cardinality({m \in 1..12 : DaysBeforeMonth[m] <= (date - 1) % 365}) - 1

\* request.headers.get('authorization')?.replace('Bearer ', ''): "" when the
\* header is missing; verifyToken gives the payload's userId, 0 for null
verifyToken(token) == IF token = "u1" THEN 1 ELSE IF token = "u2" THEN 2 ELSE 0

\* prisma.vehicle.findMany({ where: { userId } }): the rows, which come in any
\* order
vehiclesFound(table, userId) == {v \in table : v.userId = userId}

\* prisma.monthlyBudget.findUnique({ where: { userId } }): the row, or null
findUnique(table, userId) ==
    IF \E b \in table : b.userId = userId
    THEN CHOOSE b \in table : b.userId = userId
    ELSE Null

\* orderBy: { entryDate: 'desc' }: rows of one date come in any order
OrderedByDateDesc(rows) ==
    {q \in Orderings(rows) : \A i, j \in DOMAIN q : i < j => q[i].entryDate >= q[j].entryDate}

\* prisma.fillUpEntry.findMany({ where: { vehicle: { userId } }, orderBy }):
\* the rows, which come by entryDate
entriesFound(store, table, userId) ==
    {e \in store : \E v \in table : v.id = e.vehicleId /\ v.userId = userId}

\* one element of vehiclesWithStats
vehicleWithStats(vehicle, found) ==
    LET vehicleEntries == SelectSeq(found, LAMBDA e : e.vehicleId = vehicle.id)
        economySamples == SelectSeq(vehicleEntries, LAMBDA e : IsSet(e.economyLPer100Km))
        mpgSamples == SelectSeq(vehicleEntries, LAMBDA e : IsSet(e.economyMpg))
    IN  [id |-> vehicle.id,
         userId |-> vehicle.userId,
         expectedMpg |-> IF IsSet(vehicle.expectedMpg) THEN ToNumber(vehicle.expectedMpg) ELSE Null,
         stats |-> [entryCount |-> Len(vehicleEntries),
                    totalFuelL |-> sumNumbers(vehicleEntries, "fuelVolumeL"),
                    totalCost |-> sumNumbers(vehicleEntries, "totalCost"),
                    avgEconomyLPer100Km |-> OrNull(meanOrNull(economySamples, "economyLPer100Km")),
                    avgEconomyMpg |-> OrNull(meanOrNull(mpgSamples, "economyMpg"))]]

SameMonthOfAnyYear(found, now) ==
    SelectSeq(found, LAMBDA entry : getMonth(entry.entryDate) + 1 = getMonth(now) + 1)

\* the entries of the current year and month
currentMonthEntries(found, now) ==
    SelectSeq(found, LAMBDA entry : /\ getFullYear(entry.entryDate) = getFullYear(now)
                                    /\ getMonth(entry.entryDate) + 1 = getMonth(now) + 1)

\* budget ? { budget, totalSpent, percentUsed } : null
budgetUsageOf(budget, totalSpent) ==
    IF budget # Null
    THEN [budget |-> [id |-> budget.id, userId |-> budget.userId,
                      amount |-> ToNumber(budget.amount), currency |-> budget.currency],
          totalSpent |-> totalSpent,
          percentUsed |-> Mul(Div(totalSpent, ToNumber(budget.amount)), Fin(100))]
    ELSE Null

\* the latest entry found of each vehicle that has one
lastEntriesOf(vehicleRows, found) ==
    LET ids == {vehicleRows[i].id : i \in DOMAIN vehicleRows}
        of(id) == SelectSeq(found, LAMBDA e : e.vehicleId = id)
    IN  [id \in {x \in ids : of(x) # << >>} |-> Head(of(id))]

ScoreNotClamped(fleetAvgMpg, expectedAvgMpg) ==
    IF Truthy(fleetAvgMpg) /\ Truthy(expectedAvgMpg)
    THEN Mul(Div(fleetAvgMpg, expectedAvgMpg), Fin(100))
    ELSE Null

\* fleetAvgMpg && expectedAvgMpg ? Math.max(0, Math.min(120, ratio * 100)) : null
healthScoreOf(fleetAvgMpg, expectedAvgMpg) ==
    IF Truthy(fleetAvgMpg) /\ Truthy(expectedAvgMpg)
    THEN MathMax(Fin(0), MathMin(Fin(120), Mul(Div(fleetAvgMpg, expectedAvgMpg), Fin(100))))
    ELSE Null

\* fleetAvgMpg, expectedAvgMpg and healthScore
fleetHealthOf(found, withStats) ==
    LET fleetMpgSamples == SelectSeq(found, LAMBDA e : IsSet(e.economyMpg))
        fleetAvgMpg == meanOrNull(fleetMpgSamples, "economyMpg")
        expectedValues == SelectSeq(withStats, LAMBDA v : Truthy(v.expectedMpg))
        expectedAvgMpg == meanOrNull(expectedValues, "expectedMpg")
    IN  [fleetAvgMpg |-> fleetAvgMpg,
         expectedAvgMpg |-> expectedAvgMpg,
         healthScore |-> healthScoreOf(fleetAvgMpg, expectedAvgMpg)]

\* the answer without a body
NoData == [made |-> FALSE]

\* What GET /api/dashboard answers for the token at time now, when the
\* database gives the vehicle rows, the budget and the entries found.
handleGET(token, now, vehicleRows, budget, found) ==
    LET withStats == [i \in DOMAIN vehicleRows |-> vehicleWithStats(vehicleRows[i], found)]
        totalSpent == sumNumbers(currentMonthEntries(found, now), "totalCost")
    IN  IF token = ""
        THEN [status |-> 401, error |-> "Unauthorized", data |-> NoData]
        ELSE IF verifyToken(token) = 0
        THEN [status |-> 401, error |-> "Invalid token", data |-> NoData]
        ELSE [status |-> 200, error |-> "",
              data |-> [made |-> TRUE,
                        vehicles |-> withStats,
                        budgetUsage |-> budgetUsageOf(budget, totalSpent),
                        lastEntries |-> lastEntriesOf(vehicleRows, found),
                        fleetHealth |-> fleetHealthOf(found, withStats)]]

\* const budgetPercent = useMemo(...): the percentage the page shows
budgetPercent(budgetUsage) ==
    IF budgetUsage = Null THEN Fin(0)
    ELSE IF ~Truthy(budgetUsage.percentUsed) THEN Fin(0)
    ELSE MathMin(Fin(120), budgetUsage.percentUsed)

\* the three queries the handler awaits together
DashQueries == {"vehicle.findMany", "monthlyBudget.findUnique", "fillUpEntry.findMany"}

\* a request whose queries have not run yet: what they returned (read) and the
\* tables as they were when each of them ran (seen)
Asked(token, now) ==
    [made |-> FALSE, started |-> TRUE, token |-> token, userId |-> verifyToken(token),
     now |-> now, done |-> {},
     read |-> [vehicles |-> {}, budget |-> Null, entries |-> {}],
     seen |-> [vehicles |-> {}, budgets |-> {}, entries |-> {}, joined |-> {}],
     answer |-> [status |-> 0, error |-> "", data |-> NoData]]

\* A request to GET /api/dashboard arrives: without a valid token it is
\* answered 401 at once; otherwise the handler reads the clock and sends its
\* three queries (Promise.all), which run one by one in any order, with the
\* writes of other requests between them.
DashStart(token, now) ==
    /\ ~dashboard.started
    /\ dashboard' = IF verifyToken(token) = 0
                    THEN [Asked(token, now) EXCEPT
                            !.made = TRUE,
                            !.answer = handleGET(token, now, << >>, Null, << >>)]
                    ELSE Asked(token, now)
    /\ UNCHANGED <<entries, nextId, request, response, call, inflight, stats, vehicles, budgets, sync, worker>>

\* the query has been sent and has not run yet
Waiting(query) == dashboard.started /\ ~dashboard.made /\ query \notin dashboard.done

\* prisma.vehicle.findMany runs
ReadVehicles ==
    /\ Waiting("vehicle.findMany")
    /\ dashboard' = [dashboard EXCEPT
                       !.done = @ \cup {"vehicle.findMany"},
                       !.read.vehicles = vehiclesFound(vehicles, dashboard.userId),
                       !.seen.vehicles = vehicles]
    /\ UNCHANGED <<entries, nextId, request, response, call, inflight, stats, vehicles, budgets, sync, worker>>

\* prisma.monthlyBudget.findUnique runs
ReadBudget ==
    /\ Waiting("monthlyBudget.findUnique")
    /\ dashboard' = [dashboard EXCEPT
                       !.done = @ \cup {"monthlyBudget.findUnique"},
                       !.read.budget = findUnique(budgets, dashboard.userId),
                       !.seen.budgets = budgets]
    /\ UNCHANGED <<entries, nextId, request, response, call, inflight, stats, vehicles, budgets, sync, worker>>

\* prisma.fillUpEntry.findMany runs
ReadEntries ==
    /\ Waiting("fillUpEntry.findMany")
    /\ dashboard' = [dashboard EXCEPT
                       !.done = @ \cup {"fillUpEntry.findMany"},
                       !.read.entries = entriesFound(entries, vehicles, dashboard.userId),
                       !.seen.entries = entries,
                       !.seen.joined = vehicles]
    /\ UNCHANGED <<entries, nextId, request, response, call, inflight, stats, vehicles, budgets, sync, worker>>

\* the three queries have returned: the handler builds the answer from their
\* rows
DashAnswer ==
    /\ dashboard.started /\ ~dashboard.made
    /\ dashboard.done = DashQueries
    /\ \E vehicleRows \in Orderings(dashboard.read.vehicles),
          found \in OrderedByDateDesc(dashboard.read.entries) :
           dashboard' = [dashboard EXCEPT
                           !.made = TRUE,
                           !.answer = handleGET(dashboard.token, dashboard.now, vehicleRows,
                                                dashboard.read.budget, found)]
    /\ UNCHANGED <<entries, nextId, request, response, call, inflight, stats, vehicles, budgets, sync, worker>>

\* the body of a vehicle request: its name and its expectedMpg
VehicleBody(name, expectedMpg) == [name |-> name, expectedMpg |-> expectedMpg]

\* createVehicleSchema: name a string of at least one character, expectedMpg
\* an optional positive number
createVehicleSchema(body) ==
    /\ body.name \notin {"undefined", ""}
    /\ body.expectedMpg = Undefined \/ numberPositive(body.expectedMpg)

\* updateVehicleSchema = createVehicleSchema.partial(): every field optional
updateVehicleSchema(body) ==
    /\ body.name # ""
    /\ body.expectedMpg = Undefined \/ numberPositive(body.expectedMpg)

\* the id the vehicle table gives its next row
nextVehicleId(table) ==
    1 + (CHOOSE m \in {0} \cup {v.id : v \in table} : \A v \in table : v.id <= m)

\* POST /api/vehicles: the vehicle table and the answer
vehiclePOST(table, user, body) ==
    IF user = 0 THEN [vehicles |-> table, response |-> Response("POST /api/vehicles", 401, "Not authenticated")]
    ELSE IF ~createVehicleSchema(body)
    THEN [vehicles |-> table, response |-> Response("POST /api/vehicles", 400, "Invalid input")]
    ELSE [vehicles |-> table \cup
                       {[id |-> nextVehicleId(table), userId |-> user,
                         expectedMpg |-> IF body.expectedMpg = Undefined THEN Null
                                         ELSE body.expectedMpg]},
          response |-> Response("POST /api/vehicles", 201, "")]

\* prisma.vehicle.updateMany({ where: { id, userId }, data }): the rows it matches
vehiclesMatched(table, user, id) == {v \in table : Fin(v.id) = parseInt(id) /\ v.userId = user}

\* PUT /api/vehicles/[id] up to and including prisma.vehicle.updateMany: the
\* vehicle table, and the answer when the handler ends there (status 0 when
\* it goes on to read the row back)
vehiclePUT(table, user, id, body) ==
    IF user = 0 THEN [vehicles |-> table, response |-> Response("PUT /api/vehicles/[id]", 401, "Not authenticated")]
    ELSE IF ~updateVehicleSchema(body)
    THEN [vehicles |-> table, response |-> Response("PUT /api/vehicles/[id]", 400, "Invalid input")]
    ELSE IF vehiclesMatched(table, user, id) = {}
    THEN [vehicles |-> table, response |-> Response("PUT /api/vehicles/[id]", 404, "Vehicle not found")]
    ELSE [vehicles |-> {IF v \in vehiclesMatched(table, user, id) /\ body.expectedMpg # Undefined
                        THEN [v EXCEPT !.expectedMpg = body.expectedMpg] ELSE v : v \in table},
          response |-> Response("PUT /api/vehicles/[id]", 0, "")]

\* prisma.vehicle.findUnique({ where: { id: vehicleId } }) and the vehicle of
\* the answer: the row with expectedMpg as a number, or null when the column
\* is null (the DECIMAL(8, 3) column is read as a Decimal object, which is
\* truthy whatever it holds), or null when no row has the id any more
vehicleUpdated(table, id) ==
    IF \E v \in table : Fin(v.id) = parseInt(id)
    THEN LET updated == CHOOSE v \in table : Fin(v.id) = parseInt(id)
         IN  [found |-> TRUE, id |-> updated.id, userId |-> updated.userId,
              expectedMpg |-> IF IsSet(updated.expectedMpg)
                              THEN ToNumber(updated.expectedMpg) ELSE Null]
    ELSE [found |-> FALSE, id |-> 0, userId |-> 0, expectedMpg |-> Null]

\* the 200 answer of PUT /api/vehicles/[id] with its vehicle
VehicleAnswer(vehicle) ==
    [op |-> "PUT /api/vehicles/[id]", status |-> 200, error |-> "", vehicle |-> vehicle]

\* the vehicle updates that have written and not yet read the row back
Updating == {f \in inflight : f.h = 0}

\* what the store does with the entries of a vehicle that is deleted (the
\* relation's referential action): it deletes them, it refuses to delete the
\* vehicle, or it leaves them
OnDelete == {"Cascade", "Restrict", "NoAction"}

\* DELETE /api/vehicles/[id]: the two tables and the answer
vehicleDELETE(table, store, user, id, onDelete) ==
    LET matched == vehiclesMatched(table, user, id)
        owned == {e \in store : \E v \in matched : e.vehicleId = v.id}
    IN  IF user = 0
        THEN [vehicles |-> table, entries |-> store,
              response |-> Response("DELETE /api/vehicles/[id]", 401, "Not authenticated")]
        ELSE IF matched = {}
        THEN [vehicles |-> table, entries |-> store,
              response |-> Response("DELETE /api/vehicles/[id]", 404, "Vehicle not found")]
        ELSE IF owned # {} /\ onDelete = "Restrict"
        THEN [vehicles |-> table, entries |-> store,
              response |-> Response("DELETE /api/vehicles/[id]", 500, "Internal server error")]
        ELSE [vehicles |-> table \ matched,
              entries |-> IF onDelete = "Cascade" THEN store \ owned ELSE store,
              response |-> Response("DELETE /api/vehicles/[id]", 200, "")]

\* no vehicle request has been made yet: a behaviour has one vehicle request,
\* or an update and a delete of the same vehicle by the same user that arrives
\* while the update is under way; they arrive before the dashboard request,
\* between two of its queries or after them, before the answer (an update
\* that has written reads its row back at any time, also after the answer)
NoVehicleRequestYet == ~dashboard.made /\ request.op = "" /\ inflight = {}

\* One request to POST /api/vehicles
CreateVehicle(user, body) ==
    /\ NoVehicleRequestYet
    /\ LET out == vehiclePOST(vehicles, user, body)
       IN  /\ vehicles' = out.vehicles
           /\ response' = out.response
    /\ request' = Request("POST /api/vehicles", user, "", "", body)
    /\ UNCHANGED <<entries, nextId, call, inflight, stats, dashboard, budgets, sync, worker>>

\* One request to PUT /api/vehicles/[id], up to the await of updateMany: it is
\* answered at once when it is refused or matches no row
UpdateVehicle(user, id, body) ==
    /\ NoVehicleRequestYet
    /\ LET out == vehiclePUT(vehicles, user, id, body)
       IN  /\ vehicles' = out.vehicles
           /\ IF out.response.status = 0
              THEN /\ inflight' = {[h |-> 0, user |-> user, id |-> id, body |-> body]}
                   /\ UNCHANGED <<request, response>>
              ELSE /\ request' = Request("PUT /api/vehicles/[id]", user, id, "", body)
                   /\ response' = out.response
                   /\ UNCHANGED inflight
    /\ UNCHANGED <<entries, nextId, call, stats, dashboard, budgets, sync, worker>>

\* The update reads its row back with findUnique and answers 200, whatever the
\* dashboard request has done meanwhile
VehicleUpdated ==
    /\ \E f \in Updating :
          /\ request' = Request("PUT /api/vehicles/[id]", f.user, f.id, "", f.body)
          /\ response' = VehicleAnswer(vehicleUpdated(vehicles, f.id))
          /\ inflight' = inflight \ {f}
    /\ UNCHANGED <<entries, nextId, call, stats, dashboard, vehicles, budgets, sync, worker>>

\* One request to DELETE /api/vehicles/[id]
DeleteVehicle(user, id, onDelete) ==
    /\ \/ NoVehicleRequestYet
       \/ /\ ~dashboard.made /\ request.op = ""
          /\ \E f \in Updating : f.user = user /\ f.id = id
    /\ LET out == vehicleDELETE(vehicles, entries, user, id, onDelete)
       IN  /\ vehicles' = out.vehicles
           /\ entries' = out.entries
           /\ response' = out.response
    /\ request' = Request("DELETE /api/vehicles/[id]", user, id, "", NoBody)
    /\ UNCHANGED <<nextId, call, inflight, stats, dashboard, budgets, sync, worker>>

\* a new vehicle of user 1
VehicleCreateRequests == {[user |-> 1, body |-> VehicleBody("car", Undefined)]}

\* an expectedMpg for vehicle 3 by its owner
VehicleUpdateRequests == {[user |-> 1, id |-> "3", body |-> VehicleBody("undefined", Fin(3))]}

\* vehicle 1 deleted by its owner, or by a user who does not own it, and
\* vehicle 3 deleted by its owner
VehicleDeleteRequests ==
    {[user |-> u, id |-> "1"] : u \in {1, 2}} \cup {[user |-> 1, id |-> "3"]}

\* entry dates in January 2025, February 2025 and January 2026
DashDates == {1, 32, 366}

\* the clock's readings: in February 2025 and in January 2026
DashClock == {33, 367}

Tokens == {"", "u1", "u2"}

\* dated create requests: full fills of user 1 for vehicle 1 at the smallest
\* and the largest odometer, and of user 2 for vehicle 2 at odometer 1
DashSeedRequests ==
    {[user |-> 1, id |-> "1",
      body |-> Body("undefined", date, Fin(odo), Fin(2), Fin(3), "GASOLINE", "FULL")] :
        date \in DashDates, odo \in {1, MaxOdo}}
    \cup
    {[user |-> 2, id |-> "2",
      body |-> Body("undefined", date, Fin(1), Fin(2), Fin(3), "DIESEL", "FULL")] :
        date \in {32}}

\* the tables the create handler builds from at most n of them
RECURSIVE DashStoresAfter(_)
DashStoresAfter(n) ==
    IF n = 0 THEN {{}}
    ELSE LET prev == DashStoresAfter(n - 1)
         IN  prev \cup {handlePOST(t, Cardinality(t) + 1, r, 1).store :
                           t \in prev, r \in DashSeedRequests}

\* vehicle 1 of user 1 with or without an expectedMpg, vehicle 3 of user 1
\* without one, and vehicle 2 of user 2 with one
DashVehicleTables ==
    {{[id |-> 1, userId |-> 1, expectedMpg |-> ab[1]],
      [id |-> 3, userId |-> 1, expectedMpg |-> ab[2]],
      [id |-> 2, userId |-> 2, expectedMpg |-> Fin(1)]} :
        ab \in {<<Null, Null>>, <<Fin(1), Null>>}}

\* a budget of user 1 (createBudgetSchema: amount positive), none of user 2
DashBudgetTables == {{[id |-> 1, userId |-> 1, amount |-> Fin(4), currency |-> "USD"]}}

InitDash ==
    /\ entries \in DashStoresAfter(MaxSeed)
    /\ nextId = Cardinality(entries) + 1
    /\ request = Request("", 0, "", "", NoBody)
    /\ response = Response("", 0, "")
    /\ call = NoCall
    /\ inflight = {}
    /\ stats = NoStats
    /\ dashboard = NoDashboard
    /\ vehicles \in DashVehicleTables
    /\ budgets \in DashBudgetTables
    /\ sync = NoSync
    /\ worker = NoWorker

DashboardRequest == \E token \in Tokens, now \in DashClock : DashStart(token, now)

VehicleCreate == \E r \in VehicleCreateRequests : CreateVehicle(r.user, r.body)

VehicleUpdate == \E r \in VehicleUpdateRequests : UpdateVehicle(r.user, r.id, r.body)

VehicleDelete == \E r \in VehicleDeleteRequests, onDelete \in OnDelete : DeleteVehicle(r.user, r.id, onDelete)

NextDash ==
    \/ DashboardRequest \/ ReadVehicles \/ ReadBudget \/ ReadEntries \/ DashAnswer
    \/ VehicleCreate \/ VehicleUpdate \/ VehicleUpdated \/ VehicleDelete

SpecDash == InitDash /\ [][NextDash]_vars

----------------------------------------------------------------------------
(* The service worker: background sync of queued entries *)

\* The sync event with the tag 'sync-entries': syncQueuedEntries opens the
\* database and asks for a transaction on 'queuedEntries'. The database has no
\* object store of that name (initDB creates 'cacheTimestamps' alone, and
\* nothing else creates one or queues an entry), so db.transaction throws, the
\* outer catch ends the sync, and the loop that sends the queued entries and
\* deletes them is not entered.
SyncEvent ==
    /\ "queuedEntries" \notin sync.stores
    /\ sync' = [sync EXCEPT !.outcome = "no store"]
    /\ UNCHANGED <<entries, nextId, request, response, call, inflight, stats, dashboard, vehicles, budgets, worker>>

InitSync ==
    /\ entries = {}
    /\ nextId = 1
    /\ request = Request("", 0, "", "", NoBody)
    /\ response = Response("", 0, "")
    /\ call = NoCall
    /\ inflight = {}
    /\ stats = NoStats
    /\ dashboard = NoDashboard
    /\ vehicles = VehicleRows
    /\ budgets = {}
    /\ sync = NoSync
    /\ worker = NoWorker

NextSync == SyncEvent

SpecSync == InitSync /\ [][NextSync]_vars

----------------------------------------------------------------------------
(* The service worker: the fetch handler for paths under /api/ *)

\* 5 minutes, in milliseconds
DASHBOARD_CACHE_TTL == 5 * 60 * 1000

\* the latest reading of the clock, in milliseconds
MaxTime == 400000

\* the time that passes between two readings of the clock: 6 minutes
Ticks == {360000}

\* the largest number of cache and timestamp writes started and not yet
\* carried out
MaxPending == 4

\* what the network does with a fetch: an ok response, a response with an
\* error status, or no response (the fetch rejects)
Networks == {"ok", "error", "failed"}

\* isCacheExpired: if (!timestamp) return true; return Date.now() - timestamp > ttl
isCacheExpired(timestamp, now, ttl) ==
    IF timestamp = 0 THEN TRUE ELSE now - timestamp > ttl

\* an answer of the service worker to the page
Answer(path, kind, status, stored, at, waited, net, cacheHad) ==
    [path |-> path, kind |-> kind, status |-> status, stored |-> stored, at |-> at,
     waited |-> waited, net |-> net, cacheHad |-> cacheHad]

\* cache.put(request, response.clone()) and setCacheTimestamp(key, Date.now()),
\* both started and not awaited: every ok reply starts its own writes, so
\* equal writes may be pending more than once
writesOf(path, now) ==
    SetToBag({[kind |-> "put", path |-> path, value |-> 0]}
             \cup (IF path = "/api/dashboard"
                   THEN {[kind |-> "stamp", path |-> path, value |-> now]}
                   ELSE {}))

\* the writes pending with those of one more ok reply
started(writes, path, now) == writes (+) writesOf(path, now)

\* the number of writes an ok reply may still start
roomFor(writes, path, now) ==
    BagCardinality(writes) + BagCardinality(writesOf(path, now)) <= MaxPending

\* const cached = await cache.match(request)
DashMatch(h) ==
    /\ worker.handlers[h].pc = "idle"
    /\ worker' = [worker EXCEPT !.handlers[h] = [pc |-> "matched", cached |-> worker.dash]]
    /\ UNCHANGED <<entries, nextId, request, response, call, inflight, stats, dashboard, vehicles, budgets, sync>>

\* const expired = await isCacheExpired(...); if (cached && !expired) the
\* cached response is returned and a fetch revalidates in the background,
\* otherwise the handler awaits a fetch
DashExpiry(h) ==
    /\ worker.handlers[h].pc = "matched"
    /\ LET cached == worker.handlers[h].cached
           expired == isCacheExpired(worker.stamp, worker.now, DASHBOARD_CACHE_TTL)
       IN  IF cached # NoResponse /\ ~expired
           THEN worker' = [worker EXCEPT
                             !.handlers[h] = [pc |-> "revalidating", cached |-> cached],
                             !.answer = Answer("/api/dashboard", "cached", cached.status,
                                               cached.stored, worker.now, FALSE, "", TRUE)]
           ELSE worker' = [worker EXCEPT
                             !.handlers[h] = [pc |-> "fetching", cached |-> cached]]
    /\ UNCHANGED <<entries, nextId, request, response, call, inflight, stats, dashboard, vehicles, budgets, sync>>

\* return cached || new Response('Offline - no cached data available', { status: 503 })
staleOr503(cached, now, net) ==
    IF cached # NoResponse
    THEN Answer("/api/dashboard", "cached", cached.status, cached.stored, now, TRUE, net, TRUE)
    ELSE Answer("/api/dashboard", "offline", 503, 0, now, TRUE, net, FALSE)

\* the fetch of a dashboard handler settles
DashReply(h, net) ==
    /\ worker.handlers[h].pc \in {"fetching", "revalidating"}
    /\ net = "ok" => roomFor(worker.writes, "/api/dashboard", worker.now)
    /\ LET awaited == worker.handlers[h].pc = "fetching"
           cached == worker.handlers[h].cached
           had == cached # NoResponse
       IN  worker' = [worker EXCEPT
               !.handlers[h] = Idle,
               !.writes = IF net = "ok" THEN started(@, "/api/dashboard", worker.now) ELSE @,
               !.answer =
                   IF ~awaited THEN @
                   ELSE IF net = "ok"
                   THEN Answer("/api/dashboard", "network", 200, 0, worker.now, TRUE, net, had)
                   ELSE IF net = "error"
                   THEN Answer("/api/dashboard", "network", 500, 0, worker.now, TRUE, net, had)
                   ELSE staleOr503(cached, worker.now, net)]
    /\ UNCHANGED <<entries, nextId, request, response, call, inflight, stats, dashboard, vehicles, budgets, sync>>

\* one of the cache.put or setCacheTimestamp calls started earlier is carried
\* out
WriteLands(w) ==
    /\ BagIn(w, worker.writes)
    /\ worker' = [worker EXCEPT
           !.writes = @ (-) SetToBag({w}),
           !.dash = IF w.kind = "put" /\ w.path = "/api/dashboard"
                    THEN [status |-> 200, stored |-> worker.now] ELSE @,
           !.api = IF w.kind = "put" /\ w.path \in ApiPaths
                   THEN [@ EXCEPT ![w.path] = [status |-> 200, stored |-> worker.now]] ELSE @,
           !.stamp = IF w.kind = "stamp" THEN w.value ELSE @]
    /\ UNCHANGED <<entries, nextId, request, response, call, inflight, stats, dashboard, vehicles, budgets, sync>>

\* return cache.match(request) || new Response('Offline', { status: 503 }):
\* cache.match gives a promise, which is never falsy, so the handler resolves
\* with the cached response or with undefined, and the page gets no response
matchOr503(path, cached, now, net) ==
    IF cached # NoResponse
    THEN Answer(path, "cached", cached.status, cached.stored, now, TRUE, net, TRUE)
    ELSE Answer(path, "none", 0, 0, now, TRUE, net, FALSE)

\* a request to another path under /api/, network first: its fetch settles.
\* An ok response is cached (the put is started, not awaited) and returned, a
\* response with an error status is returned, and when the fetch rejects the
\* handler awaits caches.open before it looks into the cache.
ApiSettle(h, path, net) ==
    /\ worker.apis[h].pc = "idle"
    /\ net = "ok" => roomFor(worker.writes, path, worker.now)
    /\ LET had == worker.api[path] # NoResponse
       IN  worker' = [worker EXCEPT
               !.apis[h] = IF net = "failed" THEN [pc |-> "opening", path |-> path] ELSE @,
               !.writes = IF net = "ok" THEN started(@, path, worker.now) ELSE @,
               !.answer =
                   IF net = "ok" THEN Answer(path, "network", 200, 0, worker.now, TRUE, net, had)
                   ELSE IF net = "error"
                   THEN Answer(path, "network", 500, 0, worker.now, TRUE, net, had)
                   ELSE @]
    /\ UNCHANGED <<entries, nextId, request, response, call, inflight, stats, dashboard, vehicles, budgets, sync>>

\* the catch block after caches.open: the handler answers with what the cache
\* holds for the request at that moment
ApiMatch(h) ==
    /\ worker.apis[h].pc = "opening"
    /\ LET path == worker.apis[h].path
       IN  worker' = [worker EXCEPT
               !.apis[h] = IdleApi,
               !.answer = matchOr503(path, worker.api[path], worker.now, "failed")]
    /\ UNCHANGED <<entries, nextId, request, response, call, inflight, stats, dashboard, vehicles, budgets, sync>>

\* time passes
Tick(d) ==
    /\ worker.now + d <= MaxTime
    /\ worker' = [worker EXCEPT !.now = @ + d]
    /\ UNCHANGED <<entries, nextId, request, response, call, inflight, stats, dashboard, vehicles, budgets, sync>>

Match == \E h \in FetchHandlers : DashMatch(h)

Expiry == \E h \in FetchHandlers : DashExpiry(h)

Reply == \E h \in FetchHandlers, net \in Networks : DashReply(h, net)

Write == \E w \in BagToSet(worker.writes) : WriteLands(w)

ApiReply == \E h \in FetchHandlers, path \in ApiPaths, net \in Networks : ApiSettle(h, path, net)

ApiCached == \E h \in FetchHandlers : ApiMatch(h)

Time == \E d \in Ticks : Tick(d)

NextWorker == Match \/ Expiry \/ Reply \/ Write \/ ApiReply \/ ApiCached \/ Time

SpecWorker == Init /\ [][NextWorker]_vars

----------------------------------------------------------------------------
(* Properties *)

\* the entries of the store in the scope (userId, vehicleId, tankId)
InScope(store, scope) == {e \in store : ScopeOf(e) = scope}

\* those of them whose odometer is strictly below odometerKm
SmallerInScope(store, scope, odometerKm) ==
    {e \in InScope(store, scope) : Lt(e.odometerKm, odometerKm)}

\* the largest odometer reading of a non-empty set of entries
LargestOdometer(rows) ==
    (CHOOSE p \in rows : \A q \in rows : ~Lt(p.odometerKm, q.odometerKm)).odometerKm

\* the entries the step has created
Created == entries' \ entries

\* the rows the step's history lookup has made ready for the insert
Looked == {f.row : f \in inflight' \ inflight}

\* the step stores the row e as a lookup made it, with the insert's id
FromLookup(e) == \E f \in inflight \ inflight' : e = [f.row EXCEPT !.id = e.id]

\* the scope a direct call asks about
CallScope == <<call.userId, call.vehicleId, IF call.tankId = "undefined" THEN "null" ELSE call.tankId>>

\* the numbers a direct call resolves from its input
CallOdometerKm == Coalesce(call.input.odometerKm, toKm(call.input.odometer, call.input.odometerUnit))

CallFuelVolumeL == Coalesce(call.input.fuelVolumeL, toLiters(call.input.fuelVolume, call.input.fuelUnit))

Returned == call.made /\ ~call.outcome.threw

FourNull(e) ==
    /\ e.distanceSinceLastKm = Null
    /\ e.economyLPer100Km = Null
    /\ e.economyMpg = Null
    /\ e.costPerKm = Null

\* C1: an entry gets an economy figure (economyLPer100Km or economyMpg) only
\* if its fill level is FULL and, when its derived fields were calculated, its
\* scope held an entry with a strictly smaller odometer, so that its
\* distanceSinceLastKm is a positive number; a PARTIAL entry never gets an
\* economy figure; and an entry is stored as it was calculated.
C1_EconomyOnlyFullWithPredecessor ==
    [][/\ \A e \in Looked :
             (e.economyLPer100Km # Null \/ e.economyMpg # Null) =>
                 /\ e.fillLevel = "FULL"
                 /\ SmallerInScope(entries, ScopeOf(e), e.odometerKm) # {}
                 /\ e.distanceSinceLastKm.k = "fin"
                 /\ e.distanceSinceLastKm.n > 0
       /\ \A e \in Created : FromLookup(e)]_vars

C1_Witness ==
    \E e \in entries, p \in entries :
        /\ ScopeOf(p) = ScopeOf(e)
        /\ Lt(p.odometerKm, e.odometerKm)
        /\ e.fillLevel = "FULL"
        /\ e.economyLPer100Km.k = "fin"
        /\ e.economyMpg.k = "fin"

\* C2: the distance a call returns is measured from the largest odometer reading
\* strictly below the new one among the stored entries of the call's scope,
\* whatever the entries' dates and the order in which they were stored.
C2_NearestSmallerOdometer ==
    Returned =>
        LET smaller == SmallerInScope(entries, CallScope, CallOdometerKm)
        IN  smaller # {} =>
                call.outcome.result.distanceSinceLastKm
                    = Sub(CallOdometerKm, LargestOdometer(smaller))

\* two smaller readings in scope; the nearer one is dated earlier and the call
\* is measured from it
C2_Witness ==
    /\ Returned
    /\ \E p \in entries, q \in entries :
          /\ ScopeOf(p) = CallScope /\ ScopeOf(q) = CallScope
          /\ Lt(p.odometerKm, q.odometerKm)
          /\ Lt(q.odometerKm, CallOdometerKm)
          /\ q.entryDate < p.entryDate
          /\ call.outcome.result.distanceSinceLastKm = Sub(CallOdometerKm, q.odometerKm)

\* C3: the outcome of a call depends only on the stored entries of its own scope
\* (same user, same vehicle, same tank, no tank being a scope of its own): it
\* is the outcome on the store without the entries of other scopes, and a
\* distance it returns is measured from an entry of the call's scope.
C3_LookupStaysInScope ==
    call.made =>
        /\ call.outcome = calculateDerivedFields(InScope(entries, CallScope), call.userId,
                                                 call.vehicleId, call.tankId, call.input)
        /\ (Returned /\ call.outcome.result.distanceSinceLastKm # Null) =>
               \E p \in InScope(entries, CallScope) :
                   call.outcome.result.distanceSinceLastKm = Sub(CallOdometerKm, p.odometerKm)

\* a call for tank "1" when only the no-tank scope holds a smaller reading
C3_Witness ==
    /\ Returned
    /\ call.tankId = "1"
    /\ \E e \in entries : e.tankId = "null" /\ Lt(e.odometerKm, CallOdometerKm)
    /\ SmallerInScope(entries, CallScope, CallOdometerKm) = {}
    /\ FourNull(call.outcome.result)

\* C4: when the derived fields of a well-formed create request of the
\* vehicle's owner are calculated while its scope holds no entry with a
\* strictly smaller odometer, distanceSinceLastKm, economyLPer100Km, economyMpg
\* and costPerKm are all null; the request is not refused, and the entry is
\* stored with these fields and answered 201.
C4_NoPredecessorAllNull ==
    [][/\ \A e \in Looked :
             SmallerInScope(entries, ScopeOf(e), e.odometerKm) = {} => FourNull(e)
       /\ \A e \in Created : FromLookup(e) /\ response'.status = 201
       /\ request'.op = "POST" => response'.status = 201]_vars

\* an entry stored below the only other reading of its scope
C4_Witness ==
    /\ request.op = "POST"
    /\ response.op = "POST" /\ response.status = 201
    /\ \E e \in entries, p \in entries :
          /\ e.odometerKm = request.body.odometerKm
          /\ ScopeOf(p) = ScopeOf(e)
          /\ p.id < e.id
          /\ Lt(e.odometerKm, p.odometerKm)
          /\ FourNull(e)

\* C5: an entry whose derived fields are calculated while its scope holds a
\* smaller odometer reading gets distanceSinceLastKm = dist, the difference to
\* the largest such reading, and costPerKm = totalCost / dist, whether its fill
\* is FULL or PARTIAL, and is stored with both.
C5_DistanceAndCostPerKm ==
    [][/\ \A e \in Looked :
             LET smaller == SmallerInScope(entries, ScopeOf(e), e.odometerKm)
                 dist == e.odometerKm.n - LargestOdometer(smaller).n
             IN  smaller # {} =>
                     /\ e.distanceSinceLastKm = Fin(dist)
                     /\ e.costPerKm = Rat(e.totalCost.n, dist)
       /\ \A e \in Created :
             \E f \in inflight \ inflight' :
                 /\ e.distanceSinceLastKm = f.row.distanceSinceLastKm
                 /\ e.costPerKm = f.row.costPerKm]_vars

C5_Witness ==
    \E e \in entries, p \in entries :
        /\ ScopeOf(p) = ScopeOf(e)
        /\ Lt(p.odometerKm, e.odometerKm)
        /\ e.fillLevel = "PARTIAL"
        /\ e.distanceSinceLastKm.k = "fin"
        /\ e.costPerKm.k = "fin"
        /\ e.economyLPer100Km = Null

\* C6: a FULL entry whose derived fields are calculated while its scope holds
\* a smaller odometer reading gets both economy figures, with
\* economyLPer100Km = (fuelVolumeL / dist) * 100, and is stored with both.
C6_EconomyOfFullFill ==
    [][/\ \A e \in Looked :
             LET smaller == SmallerInScope(entries, ScopeOf(e), e.odometerKm)
                 dist == e.odometerKm.n - LargestOdometer(smaller).n
             IN  (smaller # {} /\ e.fillLevel = "FULL") =>
                     /\ e.economyLPer100Km = Rat(e.fuelVolumeL.n * 100, dist)
                     /\ e.economyMpg.k = "fin"
                     /\ e.economyMpg.n > 0
       /\ \A e \in Created :
             \E f \in inflight \ inflight' :
                 /\ e.economyLPer100Km = f.row.economyLPer100Km
                 /\ e.economyMpg = f.row.economyMpg]_vars

\* 2 l over 2 km: 100 l/100 km
C6_Witness ==
    \E e \in entries, p \in entries :
        /\ ScopeOf(p) = ScopeOf(e)
        /\ p.odometerKm = Fin(1) /\ e.odometerKm = Fin(3)
        /\ e.fillLevel = "FULL"
        /\ e.fuelVolumeL = Fin(2)
        /\ e.distanceSinceLastKm = Fin(2)
        /\ e.economyLPer100Km = Fin(100)

\* a call of one copy with fuelVolumeL <= 0 or totalCost <= 0 has thrown a
\* validation error, has read no history and returns no result
NonPositiveThrows(o) ==
    (call.made /\ (Le0(CallFuelVolumeL) \/ Le0(call.input.totalCost))) =>
        /\ o.threw
        /\ o.message \in ValidationMessages
        /\ o.lookups = 0
        /\ o.result = NoResult

\* C7: a call of calculateDerivedFields, of either copy, whose resolved
\* fuelVolumeL is <= 0 or whose totalCost is <= 0 throws a validation error,
\* has read no history and returns no result.
C7_NonPositiveThrows == NonPositiveThrows(call.outcome) /\ NonPositiveThrows(call.utils)

\* a call of one copy with a missing or non-finite number has thrown a
\* validation error naming an invalid numeric value, and returns no result
NonFiniteThrows(o) ==
    (call.made /\ (\/ CallOdometerKm.k # "fin"
                   \/ CallFuelVolumeL.k # "fin"
                   \/ call.input.totalCost.k # "fin")) =>
        /\ o.threw
        /\ o.message \in {MsgOdometer, MsgFuel, MsgCost}
        /\ o.result = NoResult

\* C8: a call of calculateDerivedFields, of either copy, whose resolved
\* odometerKm, resolved fuelVolumeL or totalCost is missing or no finite number
\* throws a validation error naming an invalid numeric value, and returns no
\* result.
C8_NonFiniteThrows == NonFiniteThrows(call.outcome) /\ NonFiniteThrows(call.utils)

\* a number the create handler must refuse: missing, NaN, infinite, or not positive
Refused(v) == ~(v.k = "fin" /\ v.n > 0)

\* C9: a create request of a vehicle's owner that is otherwise in order and
\* whose odometerKm, fuelVolumeL or totalCost is missing, not finite or not
\* positive is answered 400 with a message, and the store is left as it was.
C9_RejectedCreateIs400 ==
    [][(/\ request'.op = "POST"
        /\ \E v \in Vehicles : v.userId = request'.user /\ parseInt(request'.id) = Fin(v.id)
        /\ request'.body.fuelType \in FuelTypes
        /\ request'.body.fillLevel \in FillLevels
        /\ request'.body.tankProfileId = "undefined"
        /\ (Refused(request'.body.odometerKm) \/ Refused(request'.body.fuelVolumeL)
               \/ Refused(request'.body.totalCost)))
       => /\ response'.status = 400
          /\ response'.error \in {"Invalid input"} \cup ValidationMessages
          /\ entries' = entries
          /\ nextId' = nextId]_vars

\* a result returned by one copy has pricePerLiter = totalCost / fuelVolumeL, a number
PricePerLiter(o) ==
    (call.made /\ ~o.threw) =>
        /\ o.result.pricePerLiter.k = "fin"
        /\ o.result.pricePerLiter = Div(call.input.totalCost, CallFuelVolumeL)
        /\ Mul(o.result.pricePerLiter, CallFuelVolumeL) = call.input.totalCost

\* C10: a result a call of calculateDerivedFields returns, of either copy, has
\* pricePerLiter = totalCost / fuelVolumeL, a number, with or without a
\* predecessor and whatever the fill level.
C10_PricePerLiter == PricePerLiter(call.outcome) /\ PricePerLiter(call.utils)

\* C11: derived fields are written once: no step changes a stored entry (an
\* entry that is still stored is stored as it was), the calculation of a
\* create request writes nothing, its insert adds exactly one entry and
\* removes none, and a delete adds nothing.
C11_DerivedFieldsWrittenOnce ==
    [][/\ \A e \in entries : (\E f \in entries' : f.id = e.id) => e \in entries'
       /\ Cardinality(inflight') > Cardinality(inflight) => entries' = entries
       /\ Cardinality(inflight') < Cardinality(inflight) =>
              (entries \subseteq entries' /\ Cardinality(entries' \ entries) = 1)
       /\ inflight' = inflight => (request'.op = "DELETE" /\ entries' \subseteq entries)]_vars

\* the entry e is created last, with an odometer between those of a and b of
\* its scope: e is linked to a, and b is still linked to a as before
C11_Witness ==
    \E a \in entries, b \in entries, e \in entries :
        /\ ScopeOf(a) = ScopeOf(e) /\ ScopeOf(b) = ScopeOf(e)
        /\ Lt(a.odometerKm, e.odometerKm) /\ Lt(e.odometerKm, b.odometerKm)
        /\ a.id < b.id /\ b.id < e.id
        /\ request.op = "POST" /\ response.status = 201
        /\ request.body.odometerKm = e.odometerKm
        /\ e.distanceSinceLastKm = Sub(e.odometerKm, a.odometerKm)
        /\ b.distanceSinceLastKm = Sub(b.odometerKm, a.odometerKm)
        /\ b.costPerKm = Div(b.totalCost, Sub(b.odometerKm, a.odometerKm))

\* C12: lookup and insert of a create request are separate steps and nothing
\* serializes two requests: a lookup writes nothing, and an insert stores the
\* derived fields its own lookup computed, also when another request of the
\* scope has inserted in between.
C12_LookupAndInsertNotSerialized ==
    [][/\ inflight' # inflight /\ Cardinality(inflight') > Cardinality(inflight)
            => entries' = entries
       /\ \A e \in Created :
             \E f \in inflight :
                 /\ f \notin inflight'
                 /\ e.odometerKm = f.row.odometerKm
                 /\ e.distanceSinceLastKm = f.row.distanceSinceLastKm
                 /\ e.economyLPer100Km = f.row.economyLPer100Km
                 /\ e.economyMpg = f.row.economyMpg
                 /\ e.costPerKm = f.row.costPerKm]_vars

\* both requests looked up the empty scope: a at 1 km, then b at 3 km, are both
\* stored, and b, stored after a, has no distance
C12_Witness ==
    \E a \in entries, b \in entries :
        /\ ScopeOf(a) = ScopeOf(b)
        /\ a.id < b.id
        /\ Lt(a.odometerKm, b.odometerKm)
        /\ b.distanceSinceLastKm = Null
        /\ inflight = {}

\* the rows a call of calculateFuelStats has found, and those of them whose
\* odometerKm, fuelVolumeL and totalCost are finite numbers
FoundRows == {stats.found[i] : i \in DOMAIN stats.found}

ValidRows ==
    {e \in FoundRows : e.odometerKm.k = "fin" /\ e.fuelVolumeL.k = "fin" /\ e.totalCost.k = "fin"}

\* the sum of a field over a set of rows
RECURSIVE SetSum(_, _)
SetSum(rows, field) ==
    IF rows = {} THEN Fin(0)
    ELSE LET e == CHOOSE x \in rows : TRUE
         IN  Add(e[field], SetSum(rows \ {e}, field))

\* the rows found that are valid, in the order found
ValidFound == SelectSeq(stats.found, LAMBDA e : e \in ValidRows)

\* the result of one copy counts the valid rows, is the result for the valid
\* rows alone, and has finite totals
InvalidRowsExcluded(result, ofValid) ==
    stats.made =>
        /\ result.entryCount = Cardinality(ValidRows)
        /\ result = ofValid
        /\ result.totalFuelL.k = "fin"
        /\ result.totalCost.k = "fin"
        /\ result.totalDistanceKm.k = "fin"
        /\ result.avgPricePerLiter.k \in {"fin", "null"}

\* C13: calculateFuelStats, of either copy, completes and leaves out every row
\* whose odometerKm, fuelVolumeL or totalCost is no finite number: entryCount
\* is the number of the other rows, the result is the one for the rows found
\* without the excluded ones, and totalFuelL, totalCost and totalDistanceKm are
\* finite.
C13_InvalidRowsExcluded ==
    /\ InvalidRowsExcluded(stats.result, calculateFuelStats(ValidFound))
    /\ InvalidRowsExcluded(stats.utils, calculateFuelStatsUtils(ValidFound))

\* the fields of the stats record returned for a non-empty set
StatsFields ==
    {"totalFuelL", "totalCost", "totalDistanceKm", "avgEconomyLPer100Km",
     "avgEconomyMpg", "avgPricePerLiter", "entryCount"}

\* C14: when no row is found, or every row found is excluded, calculateFuelStats
\* returns a record with the fields of the non-empty case, totalFuelL,
\* totalCost, totalDistanceKm and entryCount 0 and avgEconomyLPer100Km,
\* avgEconomyMpg and avgPricePerLiter null.
C14_EmptyStatsShape ==
    (stats.made /\ ValidRows = {}) =>
        /\ DOMAIN stats.result = StatsFields
        /\ stats.result.totalFuelL = Fin(0)
        /\ stats.result.totalCost = Fin(0)
        /\ stats.result.totalDistanceKm = Fin(0)
        /\ stats.result.entryCount = 0
        /\ stats.result.avgEconomyLPer100Km = Null
        /\ stats.result.avgEconomyMpg = Null
        /\ stats.result.avgPricePerLiter = Null

\* C15: totalFuelL is the sum of fuelVolumeL and totalCost the sum of totalCost
\* over the valid rows found, full and partial fills alike.
C15_TotalsAreSums ==
    stats.made =>
        /\ stats.result.totalFuelL = SetSum(ValidRows, "fuelVolumeL")
        /\ stats.result.totalCost = SetSum(ValidRows, "totalCost")

\* a full fill of 2 l and a partial fill of 1 l, 3 each: 3 l and 6
C15_Witness ==
    /\ stats.made
    /\ \E e \in ValidRows, f \in ValidRows : e.fillLevel = "FULL" /\ f.fillLevel = "PARTIAL"
    /\ Cardinality(ValidRows) = 2
    /\ stats.result.totalFuelL = Fin(3)
    /\ stats.result.totalCost = Fin(6)

\* the positions of the valid rows in the list found
ValidPositions ==
    {i \in DOMAIN stats.found : stats.found[i] \in ValidRows}

FirstValid == stats.found[CHOOSE i \in ValidPositions : \A j \in ValidPositions : i <= j]

LastValid == stats.found[CHOOSE i \in ValidPositions : \A j \in ValidPositions : j <= i]

\* C16: the rows are found in ascending entryDate; totalDistanceKm is the
\* odometer of the last valid row minus that of the first valid row in that
\* order when there are at least two valid rows, and 0 otherwise.
C16_TotalDistanceByDateOrder ==
    stats.made =>
        /\ \A i, j \in DOMAIN stats.found :
              i < j => stats.found[i].entryDate <= stats.found[j].entryDate
        /\ stats.result.totalDistanceKm =
              IF Cardinality(ValidRows) >= 2
              THEN Sub(LastValid.odometerKm, FirstValid.odometerKm)
              ELSE Fin(0)

\* the later entry has the smaller odometer: the total distance is negative
C16_Witness ==
    /\ stats.made
    /\ Cardinality(ValidRows) = 2
    /\ FirstValid.entryDate < LastValid.entryDate
    /\ Lt(LastValid.odometerKm, FirstValid.odometerKm)
    /\ Lt(stats.result.totalDistanceKm, Fin(0))

\* the valid full fills that carry a value in the field
FullRowsWith(field) ==
    {e \in ValidRows : e.fillLevel = "FULL" /\ e[field] # Null}

MeanOver(rows, field) ==
    IF rows = {} THEN Null ELSE Div(SetSum(rows, field), Fin(Cardinality(rows)))

\* C17: avgEconomyLPer100Km is the mean of economyLPer100Km over the valid
\* full fills that have one and null when there is none; avgEconomyMpg is the
\* mean of economyMpg over the valid full fills that have one and null when
\* there is none; partial fills and rows without economy count in neither.
C17_AveragesOverFullFills ==
    stats.made =>
        /\ "avgEconomyLPer100Km" \in DOMAIN stats.result
        /\ stats.result.avgEconomyLPer100Km = MeanOver(FullRowsWith("economyLPer100Km"), "economyLPer100Km")
        /\ "avgEconomyMpg" \in DOMAIN stats.result
        /\ stats.result.avgEconomyMpg = MeanOver(FullRowsWith("economyMpg"), "economyMpg")

\* C18: avgPricePerLiter is totalCost divided by totalFuelL over the valid
\* rows when that volume is positive, and null otherwise.
C18_VolumeWeightedPrice ==
    stats.made =>
        stats.result.avgPricePerLiter =
            IF Gt0(SetSum(ValidRows, "fuelVolumeL"))
            THEN Div(SetSum(ValidRows, "totalCost"), SetSum(ValidRows, "fuelVolumeL"))
            ELSE Null

\* 2 l at 3 and 1 l at 3: 6 / 3 = 2, while the entry prices 3/2 and 3 have mean 9/4
C18_Witness ==
    /\ stats.made
    /\ Cardinality(ValidRows) = 2
    /\ \E e \in ValidRows, f \in ValidRows :
          e.pricePerLiter = Rat(3, 2) /\ f.pricePerLiter = Fin(3)
    /\ stats.result.avgPricePerLiter = Fin(2)

\* the dashboard was asked with a valid token and answered with its data
Answered == dashboard.made /\ dashboard.answer.status = 200

\* the entries of the vehicles of the user who asked, as they were stored
\* when the entries were read
UserEntries ==
    {e \in dashboard.seen.entries :
        \E v \in dashboard.seen.joined : v.id = e.vehicleId /\ v.userId = dashboard.userId}

\* those of them that have an MPG value
MpgRows == {e \in UserEntries : e.economyMpg # Null}

\* the vehicles of the user who asked that had an expectedMpg when the
\* vehicles were read
ExpectedRows ==
    {v \in dashboard.seen.vehicles : v.userId = dashboard.userId /\ v.expectedMpg # Null}

\* 100 times the mean MPG of the entries over the mean expected MPG
MpgRatioTimes100 ==
    Mul(Div(MeanOver(MpgRows, "economyMpg"), MeanOver(ExpectedRows, "expectedMpg")), Fin(100))

\* C19: in a dashboard answer healthScore is null when the user has no entry
\* with an MPG value or no vehicle with expectedMpg; otherwise fleetAvgMpg is
\* the mean economyMpg of the user's entries that have one, expectedAvgMpg the
\* mean expectedMpg of the user's vehicles that have one, and healthScore is
\* 100 * fleetAvgMpg / expectedAvgMpg, replaced by 120 when above 120 and by 0
\* when below 0.
C19_HealthScoreClamped ==
    Answered =>
        LET h == dashboard.answer.data.fleetHealth
        IN  IF MpgRows = {} \/ ExpectedRows = {}
            THEN h.healthScore = Null
            ELSE /\ h.fleetAvgMpg = MeanOver(MpgRows, "economyMpg")
                 /\ h.expectedAvgMpg = MeanOver(ExpectedRows, "expectedMpg")
                 /\ h.healthScore = IF Less(Fin(120), MpgRatioTimes100) THEN Fin(120)
                                    ELSE IF Less(MpgRatioTimes100, Fin(0)) THEN Fin(0)
                                    ELSE MpgRatioTimes100
                 /\ ~Less(h.healthScore, Fin(0))
                 /\ ~Less(Fin(120), h.healthScore)

\* the ratio is above 120 and the score is 120
C19_Witness ==
    /\ Answered
    /\ MpgRows # {} /\ ExpectedRows # {}
    /\ Less(Fin(120), MpgRatioTimes100)
    /\ dashboard.answer.data.fleetHealth.healthScore = Fin(120)

\* the user's entries dated in the year and month of the clock's reading
MonthRows ==
    {e \in UserEntries : /\ getFullYear(e.entryDate) = getFullYear(dashboard.now)
                         /\ getMonth(e.entryDate) = getMonth(dashboard.now)}

\* the budgets of the user who asked, when the budget was read
UserBudgets == {b \in dashboard.seen.budgets : b.userId = dashboard.userId}

\* C20: in a dashboard answer budgetUsage is null when the user has no budget;
\* otherwise totalSpent is the sum of totalCost over the user's entries dated
\* in the current year and month and percentUsed is 100 * totalSpent / amount,
\* also when that is above 120; the page shows at most 120.
C20_BudgetUsageUnclamped ==
    Answered =>
        LET u == dashboard.answer.data.budgetUsage
        IN  IF UserBudgets = {}
            THEN u = Null
            ELSE /\ u # Null
                 /\ u.totalSpent = SetSum(MonthRows, "totalCost")
                 /\ \A b \in UserBudgets :
                       u.percentUsed = Mul(Div(SetSum(MonthRows, "totalCost"), b.amount), Fin(100))
                 /\ budgetPercent(u) = IF Less(Fin(120), u.percentUsed) THEN Fin(120)
                                       ELSE u.percentUsed

\* 6 spent this month of a budget of 4: 150 percent, shown as 120
C20_Witness ==
    /\ Answered
    /\ UserBudgets # {}
    /\ Cardinality(MonthRows) = 2
    /\ dashboard.answer.data.budgetUsage.totalSpent = Fin(6)
    /\ dashboard.answer.data.budgetUsage.percentUsed = Fin(150)
    /\ budgetPercent(dashboard.answer.data.budgetUsage) = Fin(120)

\* C21: in every store built by create and delete requests, an entry has an
\* economyLPer100Km exactly when it has an economyMpg, so the two averages of
\* calculateFuelStats are taken over the same full fills.
C21_EconomyFieldsTogether ==
    /\ \A e \in entries : (e.economyLPer100Km = Null) <=> (e.economyMpg = Null)
    /\ \A v \in Vehicles :
          \A found \in findMany(entries, v.id, "undefined", "undefined") :
              fullFills(safeEntriesOf(found), "economyLPer100Km")
                  = fullFills(safeEntriesOf(found), "economyMpg")

\* an entry with both values beside one with neither
C21_Witness ==
    /\ \E e \in entries : e.economyLPer100Km # Null /\ e.economyMpg # Null
    /\ \E e \in entries : e.economyLPer100Km = Null /\ e.economyMpg = Null

\* C23: every request to a path under /api/ gets a response, and when its
\* fetch has failed because the network is unreachable the response is the
\* cached successful response if the cache had one for the request, and a 503
\* response otherwise.
C23_OfflineAnswerCachedOr503 ==
    worker.answer.kind # "" =>
        /\ worker.answer.kind # "none"
        /\ worker.answer.net = "failed" =>
              IF worker.answer.cacheHad
              THEN worker.answer.kind = "cached" /\ worker.answer.status = 200
              ELSE worker.answer.kind = "offline" /\ worker.answer.status = 503

\* C24: a dashboard request is answered from the cache without waiting for the
\* network only with a response that was stored at most DASHBOARD_CACHE_TTL
\* before the answer, and a request that found no cached response waits for
\* the network, whatever the order in which the cache and timestamp writes of
\* overlapping requests are carried out.
C24_CachedAnswerWithinTtl ==
    /\ (worker.answer.kind = "cached" /\ ~worker.answer.waited) =>
          worker.answer.at - worker.answer.stored <= DASHBOARD_CACHE_TTL
    /\ \A h \in FetchHandlers :
          worker.handlers[h].pc = "revalidating" => worker.handlers[h].cached # NoResponse

\* the row the history lookup of the call gives
CallPrevious == findFirst(entries, call.userId, call.vehicleId, call.tankId, CallOdometerKm)

\* C25: whenever the history lookup of a call returns a predecessor, the
\* distance to it is greater than 0, and the call returns a
\* distanceSinceLastKm exactly when the call's scope holds an entry with a
\* strictly smaller odometer: an entry with the same odometer is passed over
\* for the next smaller one.
C25_PredecessorDistancePositive ==
    Returned =>
        /\ CallPrevious.found => Gt0(Sub(CallOdometerKm, CallPrevious.odometerKm))
        /\ call.outcome.result.distanceSinceLastKm # Null
              <=> SmallerInScope(entries, CallScope, CallOdometerKm) # {}

\* the scope holds the call's own odometer value and a smaller one, and the
\* distance is measured from the smaller one
C25_Witness ==
    /\ Returned
    /\ \E p \in InScope(entries, CallScope), q \in InScope(entries, CallScope) :
          /\ p.odometerKm = CallOdometerKm
          /\ Lt(q.odometerKm, CallOdometerKm)
          /\ call.outcome.result.distanceSinceLastKm = Sub(CallOdometerKm, q.odometerKm)

\* a finite number greater than 0
FinitePositive(v) == v.k = "fin" /\ v.n > 0

OwnVehicle(userId, vehicleId) ==
    \E v \in Vehicles : v.id = vehicleId /\ v.userId = userId

\* the tank profile belongs to the vehicle
TankOf(vehicleId, tankId) ==
    \E t \in TankProfiles : t.id = tankId /\ t.vehicleId = vehicleId

\* a create request with no session, for a vehicle of another user, or with a
\* tank profile of another vehicle
Foreign(r) ==
    \/ r.user = 0
    \/ \E v \in Vehicles : Fin(v.id) = parseInt(r.id) /\ v.userId # r.user
    \/ /\ parseInt(r.id) # NaN /\ safeParse(r.body).success
       /\ \E t \in TankProfiles : t.id = r.body.tankProfileId /\ Fin(t.vehicleId) # parseInt(r.id)

\* C27: an entry a create request stores carries the requester's user id, a
\* vehicle of that user and a tank id that is null or a tank profile of that
\* vehicle; a request with no session, for a vehicle of another user or with a
\* tank profile of another vehicle stores nothing and is answered 401 or 404.
C27_CreatedEntryInRequestersScope ==
    [][request'.op = "POST" =>
          /\ \A e \in entries' \ entries :
                /\ e.userId = request'.user
                /\ OwnVehicle(e.userId, e.vehicleId)
                /\ e.tankId = "null" \/ TankOf(e.vehicleId, e.tankId)
          /\ Foreign(request') =>
                entries' = entries /\ response'.status \in {401, 404}]_vars

\* the request's input is invalid: a vehicle id that is no number, a body the
\* schema rejects, or numbers the calculator's validation rejects
InvalidInput(r) ==
    \/ parseInt(r.id) = NaN
    \/ ~safeParse(r.body).success
    \/ validationError(r.body.odometerKm, r.body.fuelVolumeL, r.body.totalCost) # ""

\* the handler reaches the store's history lookup and insert, and one of them
\* fails
StoreFailed(r) ==
    /\ r.fault.at \in {"lookup", "insert"}
    /\ r.user # 0 /\ parseInt(r.id) # NaN /\ OwnVehicle(r.user, parseInt(r.id).n)
    /\ safeParse(r.body).success
    /\ r.body.tankProfileId \in {"undefined", "0"} \/ TankOf(parseInt(r.id).n, r.body.tankProfileId)

\* C28: a create request is answered 400 only when its input is invalid; a
\* failure of the history lookup or of the insert is answered 500 with
\* "Internal server error", never 400 and never with the failure's own message.
C28_StoreFailureIs500 ==
    request.op = "POST" =>
        /\ response.status = 400 => InvalidInput(request)
        /\ StoreFailed(request) =>
              /\ response.status = 500
              /\ response.error = "Internal server error"
        /\ response.error \notin CollaboratorMessages

\* the stats fields the dashboard and calculateFuelStats have in common
SharedStatFields ==
    {"entryCount", "totalFuelL", "totalCost", "avgEconomyLPer100Km", "avgEconomyMpg"}

\* record[field], undefined when the record has no such field
FieldOf(record, field) == IF field \in DOMAIN record THEN record[field] ELSE Undefined

\* C29: in an answer of the dashboard every vehicle's inline stats (entryCount,
\* totalFuelL, totalCost, avgEconomyLPer100Km, avgEconomyMpg) equal the fields
\* of the same names that calculateFuelStats(vehicleId) gives on the same store.
C29_DashboardStatsMatchFuelStats ==
    Answered =>
        \A i \in DOMAIN dashboard.answer.data.vehicles :
            LET vehicle == dashboard.answer.data.vehicles[i]
            IN  \A found \in findMany(dashboard.seen.entries, vehicle.id, "undefined", "undefined") :
                    \A field \in SharedStatFields :
                        vehicle.stats[field] = FieldOf(calculateFuelStats(found), field)

\* the rows of the call share one tank scope and were created in strictly
\* increasing order of odometer and of entry date
CreatedInOrder(rows) ==
    \A i, j \in DOMAIN rows :
        /\ ScopeOf(rows[i]) = ScopeOf(rows[j])
        /\ rows[i].id < rows[j].id =>
              /\ Lt(rows[i].odometerKm, rows[j].odometerKm)
              /\ rows[i].entryDate < rows[j].entryDate

\* C30: when all entries of a vehicle share one tank scope and were created one
\* after another with strictly increasing odometer and entry date, none
\* deleted, the sum of their distanceSinceLastKm is the largest minus the
\* smallest odometerKm and is the totalDistanceKm of calculateFuelStats.
C30_DistancesSumToTotalDistance ==
    stats.made /\ stats.found # << >> /\ CreatedInOrder(stats.found) =>
        /\ sumNumbers(stats.found, "distanceSinceLastKm")
              = Sub(MaxOdometer(stats.found), MinOdometer(stats.found))
        /\ sumNumbers(stats.found, "distanceSinceLastKm") = stats.result.totalDistanceKm

\* three entries created in order at odometers 1, 2 and 3: the distances 1 and
\* 1 add up to the total distance 2
C30_Witness ==
    /\ stats.made /\ Len(stats.found) = 3 /\ CreatedInOrder(stats.found)
    /\ {e.distanceSinceLastKm : e \in entries} = {Null, Fin(1)}
    /\ stats.result.totalDistanceKm = Fin(2)

====
